---- MODULE Spec2Model ----
(***************************************************************************)
(* Model of lambda-log-analyzer: the AlertService cooldown state machine   *)
(* (alertService.js), the log analysis fan-out (logAnalyzer.js) and the    *)
(* Lambda handler (index.js).                                              *)
(*                                                                         *)
(* Five specifications share the module:                                   *)
(*   SpecAlert     - one AlertService instance, its public operations and  *)
(*                   asynchronous sendAlert calls of several callers;      *)
(*   SpecAnalyze   - LogAnalyzer.analyzeLogs: the CloudWatch loop and the  *)
(*                   S3 loop running under Promise.all;                    *)
(*   SpecHandler   - successive invocations of exports.handler in one      *)
(*                   process;                                              *)
(*   SpecFunctions - one call of a function of the LogAnalyzer or one      *)
(*                   load of the configuration;                            *)
(*   SpecBatch     - processLogEvents or processLogLines going over a      *)
(*                   batch record by record.                               *)
(***************************************************************************)
EXTENDS Integers, Sequences, FiniteSets, TLC

\* ------------------------------------------------------------------------
\* Bounds of the model
\* ------------------------------------------------------------------------
\* largest value of config.alerts.alertCooldown (minutes) that is explored
MaxCooldown == 2
\* minutes of wall-clock time that are explored after the start
MaxMinutes == 3

\* number of handler invocations in one process
MaxRuns == 2
\* number of fragments that a message to classify is made of, at most
MaxFragments == 3
\* number of records of a batch, at most
MaxBatch == 2
\* number of response time samples of a metrics object, at most
MaxSamples == 3

\* Date.now() at the start of the process, in milliseconds (positive)
ClockStart == 60 * 1000
\* amounts by which the wall clock advances between two steps (ms)
ClockSteps == {30 * 1000, 60 * 1000}
ClockEnd == ClockStart + MaxMinutes * 60 * 1000

\* the value of Map.get for a missing key
Undefined == -1

\* the callers of sendAlert: two, so that two calls can overlap
Callers == {1, 2}
Severities == {"INFO", "WARNING", "CRITICAL"}
\* the alert types used by index.js
AlertTypes == {"error-threshold", "threshold-violation", "summary", "lambda-failure"}
\* the alert types that the callers of SpecAlert pass
CallTypes == {"error-threshold", "summary"}

VARIABLES
  now,             \* Date.now(), ms
  alertCooldown,   \* config.alerts.alertCooldown, minutes
  snsTopicArn,     \* TRUE iff config.alerts.snsTopicArn is set
  lastAlertTimes,  \* AlertService.lastAlertTimes: a Map alertType -> ms
  call,            \* per caller: the sendAlert call it has made
  sinceRecord,     \* per type: ms elapsed since the latest recordAlert, or Undefined
  hpc,             \* exports.handler: where the current invocation stands
  run,             \* number of handler invocations started in this process
  report,          \* analysisResults of the current invocation
  statusCode,      \* statusCode returned by the latest invocation, 0 if none yet
  attempts,        \* the sendAlert calls of the current invocation, in order
  startTime,       \* Date.now() at the start of the current invocation
  deliveries,      \* the alerts that this invocation and the one before it
                   \* sent on both channels
  apc,             \* analyzeLogs: "running" until the results are combined
  cwIndex,         \* analyzeCloudWatchLogs: position of the next log group
  cwResults,       \* analyzeCloudWatchLogs: its results object
  s3pc,            \* analyzeS3Logs: "list", "files" or "done"
  s3Files,         \* analyzeS3Logs: recentFiles.slice(0, 10)
  s3Index,         \* analyzeS3Logs: position of the next file
  s3Results,       \* analyzeS3Logs: its results object
  combinedResults, \* what analyzeLogs returns
  responses,       \* what CloudWatch and S3 answered, by source
  op,              \* the function of the analyzer that was called last
  input,           \* the arguments that it was called with
  output,          \* what it returned or that it threw, and its arguments
                   \* as the call left them
  lastIndexOf,     \* lastIndex of each regular expression of config.errorPatterns
  pass             \* a call of processLogEvents or processLogLines that is
                   \* under way: its arguments, the position of forEach, its
                   \* results object and the calls of checkThresholds so far

analyzeVars == <<apc, cwIndex, cwResults, s3pc, s3Files, s3Index, s3Results,
                 combinedResults, responses>>

handlerVars == <<hpc, run, report, statusCode, attempts, startTime, deliveries>>

alertVars == <<now, alertCooldown, snsTopicArn, lastAlertTimes, call, sinceRecord>>

callVars == <<op, input, output, lastIndexOf, pass>>

\* ------------------------------------------------------------------------
\* AlertService (alertService.js)
\* ------------------------------------------------------------------------
\* new Map()
EmptyMap == [k \in {} |-> Undefined]

\* Map.prototype.get
MapGet(m, k) == IF k \in DOMAIN m THEN m[k] ELSE Undefined

\* Map.prototype.set
MapSet(m, k, v) == [x \in (DOMAIN m) \cup {k} |-> IF x = k THEN v ELSE m[x]]

\* JavaScript !v for v a number or undefined
Falsy(v) == v = Undefined \/ v = 0

\* isInCooldown with the window closed at its end (<= for <)
isInCooldown_Inclusive(times, alertType, clock, cooldown) ==
  LET lastAlertTime == MapGet(times, alertType)
      cooldownMs == cooldown * 60 * 1000
  IN  IF Falsy(lastAlertTime) THEN FALSE
      ELSE (clock - lastAlertTime) <= cooldownMs

\* AlertService.isInCooldown
isInCooldown(times, alertType, clock, cooldown) ==
  LET lastAlertTime == MapGet(times, alertType)
      cooldownMs == cooldown * 60 * 1000
  IN  IF Falsy(lastAlertTime) THEN FALSE
      ELSE (clock - lastAlertTime) < cooldownMs

\* recordAlert that stamps every known type and the given one
recordAlert_AllTypes(times, alertType, clock) ==
  [x \in (DOMAIN times) \cup {alertType} |-> clock]

\* AlertService.recordAlert
recordAlert(times, alertType, clock) == MapSet(times, alertType, clock)

IsInCooldown(T) == isInCooldown(lastAlertTimes, T, now, alertCooldown)

\* the cooldown window in milliseconds
CooldownMs == alertCooldown * 60 * 1000

\* a caller that has no call in flight and has consumed the last result
IdleCall == [pc |-> "idle", type |-> "none", severity |-> "none",
             sns |-> "none", email |-> "none"]

\* the observer of recordAlert: the clock restarts for that type
Restart(T) == [sinceRecord EXCEPT ![T] = 0]

\* a direct call of the public method recordAlert(T)
RecordAlert(T) ==
  /\ lastAlertTimes' = recordAlert(lastAlertTimes, T, now)
  /\ sinceRecord' = Restart(T)
  /\ UNCHANGED <<now, alertCooldown, snsTopicArn, call>>

\* sendSNSAlert up to its first suspension: the publish is skipped when no
\* topic is configured, otherwise the PublishCommand is sent
SnsStart == IF snsTopicArn THEN "pending" ELSE "skipped"

\* sendAlert without the cooldown check
SendAlertCall_NoCheck(c, T, severity) ==
  /\ call[c].pc = "idle"
  /\ call' = [call EXCEPT ![c] = [pc |-> "sns", type |-> T,
                 severity |-> severity, sns |-> SnsStart, email |-> "none"]]
  /\ UNCHANGED <<now, alertCooldown, snsTopicArn, lastAlertTimes, sinceRecord>>

\* sendAlert(alertData, T, severity) up to its first suspension
SendAlertCall(c, T, severity) ==
  /\ call[c].pc = "idle"
  /\ IF IsInCooldown(T)
       THEN call' = [call EXCEPT ![c] = [pc |-> "returned", type |-> T,
                       severity |-> severity, sns |-> "none", email |-> "none"]]
       ELSE call' = [call EXCEPT ![c] = [pc |-> "sns", type |-> T,
                       severity |-> severity, sns |-> SnsStart, email |-> "none"]]
  /\ UNCHANGED <<now, alertCooldown, snsTopicArn, lastAlertTimes, sinceRecord>>

\* sendAlert recording the alert as soon as the SNS send has succeeded
SnsSettled_Record(c, ok) ==
  /\ call[c].pc = "sns"
  /\ call[c].sns = "skipped" => ok
  /\ IF ok
       THEN /\ call' = [call EXCEPT ![c].pc = "email",
                          ![c].sns = IF call[c].sns = "skipped" THEN "skipped" ELSE "ok",
                          ![c].email = "pending"]
            /\ lastAlertTimes' = recordAlert(lastAlertTimes, call[c].type, now)
            /\ sinceRecord' = Restart(call[c].type)
       ELSE /\ call' = [call EXCEPT ![c].pc = "threw", ![c].sns = "failed"]
            /\ UNCHANGED <<lastAlertTimes, sinceRecord>>
  /\ UNCHANGED <<now, alertCooldown, snsTopicArn>>

\* await sendSNSAlert(...) resumes: on success the email send starts, on
\* failure the error is rethrown by sendSNSAlert and by sendAlert
SnsSettled(c, ok) ==
  /\ call[c].pc = "sns"
  /\ call[c].sns = "skipped" => ok
  /\ IF ok
       THEN call' = [call EXCEPT ![c].pc = "email",
                       ![c].sns = IF call[c].sns = "skipped" THEN "skipped" ELSE "ok",
                       ![c].email = "pending"]
       ELSE call' = [call EXCEPT ![c].pc = "threw", ![c].sns = "failed"]
  /\ UNCHANGED <<now, alertCooldown, snsTopicArn, lastAlertTimes, sinceRecord>>

\* sendAlert recording the alert whether or not the email send succeeded
EmailSettled_RecordAlways(c, ok) ==
  /\ call[c].pc = "email"
  /\ call' = [call EXCEPT ![c].pc = IF ok THEN "returned" ELSE "threw",
                          ![c].email = IF ok THEN "ok" ELSE "failed"]
  /\ lastAlertTimes' = recordAlert(lastAlertTimes, call[c].type, now)
  /\ sinceRecord' = Restart(call[c].type)
  /\ UNCHANGED <<now, alertCooldown, snsTopicArn>>

\* await sendEmailAlert(...) resumes: on success recordAlert(T) runs and
\* sendAlert returns, on failure the error is rethrown
EmailSettled(c, ok) ==
  /\ call[c].pc = "email"
  /\ IF ok
       THEN /\ call' = [call EXCEPT ![c].pc = "returned", ![c].email = "ok"]
            /\ lastAlertTimes' = recordAlert(lastAlertTimes, call[c].type, now)
            /\ sinceRecord' = Restart(call[c].type)
       ELSE /\ call' = [call EXCEPT ![c].pc = "threw", ![c].email = "failed"]
            /\ UNCHANGED <<lastAlertTimes, sinceRecord>>
  /\ UNCHANGED <<now, alertCooldown, snsTopicArn>>

\* the caller consumes the settled promise of sendAlert
Consume(c) ==
  /\ call[c].pc \in {"returned", "threw"}
  /\ call' = [call EXCEPT ![c] = IdleCall]
  /\ UNCHANGED <<now, alertCooldown, snsTopicArn, lastAlertTimes, sinceRecord>>

\* the wall clock advances
Advance(d) ==
  /\ now + d <= ClockEnd
  /\ now' = now + d
  /\ sinceRecord' = [T \in DOMAIN sinceRecord |->
                       IF sinceRecord[T] = Undefined THEN Undefined
                       ELSE sinceRecord[T] + d]
  /\ UNCHANGED <<alertCooldown, snsTopicArn, lastAlertTimes, call>>

\* ------------------------------------------------------------------------
\* The Lambda handler (index.js)
\* ------------------------------------------------------------------------
\* config.thresholds.errorRate.maxErrors
maxErrors == 10

\* analysisResults before analyzeLogs has returned
NoReport == [errors |-> 0, violations |-> <<>>]

\* the analysis results that an invocation may have to process: the number
\* of errors and the metrics of the violations
Reports ==
  {[errors |-> e, violations |-> <<>>] :
     e \in {0, 1, maxErrors + 1, 2 * maxErrors + 1}}
  \cup {[errors |-> e, violations |-> v] :
          e \in {0, maxErrors + 1},
          v \in {<<"Average Response Time">>, <<"P95 Response Time", "Memory Usage">>}}
  \cup {[errors |-> maxErrors + 1, violations |-> <<"Error Count">>]}

\* the caller of sendAlert that is the handler
Handler == 1

\* severity of the error alert
ErrorSeverity(r) == IF r.errors > maxErrors * 2 THEN "CRITICAL" ELSE "WARNING"

\* v.metric.includes('Memory') || v.metric.includes('Error')
MemoryOrError(metric) == metric \in {"Memory Usage", "Error Count"}

\* severity of the threshold violation alert
ViolationSeverity(r) ==
  IF \E i \in 1 .. Len(r.violations) : MemoryOrError(r.violations[i])
    THEN "CRITICAL" ELSE "WARNING"

\* new AlertService()
NewAlertService ==
  /\ lastAlertTimes' = EmptyMap
  /\ sinceRecord' = [T \in AlertTypes |-> Undefined]

\* the handler calls alertService.sendAlert(alert, T, severity)
HandlerSend(T, severity) ==
  /\ SendAlertCall(Handler, T, severity)
  /\ attempts' = Append(attempts, [type |-> T, severity |-> severity,
                                   started |-> call'[Handler].pc = "sns",
                                   outcome |-> "pending"])

\* exports.handler is invoked: the services are constructed and analyzeLogs
\* is started
Invoke ==
  /\ hpc = "idle"
  /\ run < MaxRuns
  /\ run' = run + 1
  /\ startTime' = now
  /\ NewAlertService
  /\ hpc' = "analyzing"
  /\ statusCode' = 0
  /\ attempts' = <<>>
  /\ report' = NoReport
  /\ deliveries' = {d \in deliveries : d.run = run}
  /\ UNCHANGED <<now, alertCooldown, snsTopicArn, call>>

\* await logAnalyzer.analyzeLogs() resumes with the combined results
AnalysisDone(r) ==
  /\ hpc = "analyzing"
  /\ report' = r
  /\ hpc' = "checkErrors"
  /\ UNCHANGED <<alertVars, run, statusCode, attempts, startTime, deliveries>>

\* processAnalysisResults: the error alert
CheckErrors ==
  /\ hpc = "checkErrors"
  /\ IF report.errors > maxErrors
       THEN /\ HandlerSend("error-threshold", ErrorSeverity(report))
            /\ hpc' = "awaitErrors"
       ELSE /\ hpc' = "checkViolations"
            /\ UNCHANGED <<alertVars, attempts>>
  /\ UNCHANGED <<run, report, statusCode, startTime, deliveries>>

\* processAnalysisResults: the threshold violation alert
CheckViolations ==
  /\ hpc = "checkViolations"
  /\ IF Len(report.violations) > 0
       THEN /\ HandlerSend("threshold-violation", ViolationSeverity(report))
            /\ hpc' = "awaitViolations"
       ELSE /\ hpc' = "checkSummary"
            /\ UNCHANGED <<alertVars, attempts>>
  /\ UNCHANGED <<run, report, statusCode, startTime, deliveries>>

\* processAnalysisResults: the summary alert
CheckSummary ==
  /\ hpc = "checkSummary"
  /\ IF report.errors > 0 \/ Len(report.violations) > 0
       THEN /\ HandlerSend("summary", "INFO")
            /\ hpc' = "awaitSummary"
       ELSE /\ hpc' = "succeed"
            /\ UNCHANGED <<alertVars, attempts>>
  /\ UNCHANGED <<run, report, statusCode, startTime, deliveries>>

Awaiting == {"awaitErrors", "awaitViolations", "awaitSummary", "awaitFailure"}

\* the SNS send of the handler's alert settles
HandlerSns(ok) ==
  /\ hpc \in Awaiting
  /\ SnsSettled(Handler, ok)
  /\ UNCHANGED handlerVars

\* the email send of the handler's alert settles
HandlerEmail(ok) ==
  /\ hpc \in Awaiting
  /\ EmailSettled(Handler, ok)
  /\ deliveries' = IF ok
                     THEN deliveries \cup {[run |-> run, type |-> call[Handler].type,
                                            at |-> now]}
                     ELSE deliveries
  /\ UNCHANGED <<hpc, run, report, statusCode, attempts, startTime>>

\* where processAnalysisResults continues after an alert
AfterAlert(pc) ==
  CASE pc = "awaitErrors" -> "checkViolations"
    [] pc = "awaitViolations" -> "checkSummary"
    [] pc = "awaitSummary" -> "succeed"

\* the outcome of the latest sendAlert call is noted
Settle(outcome) == [attempts EXCEPT ![Len(attempts)].outcome = outcome]

\* await alertService.sendAlert(...) resumes in processAnalysisResults: it
\* goes on when the call returned, and the rejection reaches the catch block
\* of the handler when it threw
Resume ==
  /\ hpc \in Awaiting \ {"awaitFailure"}
  /\ call[Handler].pc \in {"returned", "threw"}
  /\ attempts' = Settle(call[Handler].pc)
  /\ hpc' = IF call[Handler].pc = "returned" THEN AfterAlert(hpc) ELSE "catch"
  /\ Consume(Handler)
  /\ UNCHANGED <<run, report, statusCode, startTime, deliveries>>

\* the handler returns statusCode 200
Succeed ==
  /\ hpc = "succeed"
  /\ statusCode' = 200
  /\ hpc' = "idle"
  /\ UNCHANGED <<alertVars, run, report, attempts, startTime, deliveries>>

\* the catch block constructs its own AlertService
Catch ==
  /\ hpc = "catch"
  /\ NewAlertService
  /\ hpc' = "failureAlert"
  /\ UNCHANGED <<now, alertCooldown, snsTopicArn, call>>
  /\ UNCHANGED <<run, report, statusCode, attempts, startTime, deliveries>>

\* the catch block sends the critical alert about the failure
SendFailureAlert ==
  /\ hpc = "failureAlert"
  /\ HandlerSend("lambda-failure", "CRITICAL")
  /\ hpc' = "awaitFailure"
  /\ UNCHANGED <<run, report, statusCode, startTime, deliveries>>

\* a handler that lets the error of the failure alert escape
ResumeFailure_Rethrow ==
  /\ hpc = "awaitFailure"
  /\ call[Handler].pc \in {"returned", "threw"}
  /\ attempts' = Settle(call[Handler].pc)
  /\ statusCode' = IF call[Handler].pc = "returned" THEN 500 ELSE 0
  /\ hpc' = "idle"
  /\ Consume(Handler)
  /\ UNCHANGED <<run, report, startTime, deliveries>>

\* await alertService.sendAlert(...) resumes in the catch block or its error
\* is caught there: the handler returns statusCode 500
ResumeFailure ==
  /\ hpc = "awaitFailure"
  /\ call[Handler].pc \in {"returned", "threw"}
  /\ attempts' = Settle(call[Handler].pc)
  /\ statusCode' = 500
  /\ hpc' = "idle"
  /\ Consume(Handler)
  /\ UNCHANGED <<run, report, startTime, deliveries>>

\* ------------------------------------------------------------------------
\* LogAnalyzer (logAnalyzer.js) and its configuration (config.js)
\* ------------------------------------------------------------------------
\* config.logGroups
logGroups == <<"/aws/lambda/my-application", "/aws/apigateway/my-api",
               "/aws/ecs/my-service">>

\* config.thresholds.responseTime
maxAvgResponseTime == 5000
maxP95ResponseTime == 10000
\* config.thresholds.memoryUsage.maxMemoryPercent
maxMemoryPercent == 85
\* config.analysis.lookbackMinutes
lookbackMinutes == 60
\* recentFiles.slice(0, 10)
MaxS3Files == 10
\* message.substring(0, 500)
MaxMessage == 500

\* Text is a sequence of characters. The log messages and lines of the model:
\* 'INFO: Application started successfully'
MsgInfo ==
  <<"I", "N", "F", "O", ":", " ", "A", "p", "p", "l", "i", "c", "a", "t",
    "i", "o", "n", " ", "s", "t", "a", "r", "t", "e", "d", " ", "s", "u",
    "c", "c", "e", "s", "s", "f", "u", "l", "l", "y">>
\* 'ERROR: Database connection failed after 30s timeout'
MsgError ==
  <<"E", "R", "R", "O", "R", ":", " ", "D", "a", "t", "a", "b", "a", "s",
    "e", " ", "c", "o", "n", "n", "e", "c", "t", "i", "o", "n", " ", "f",
    "a", "i", "l", "e", "d", " ", "a", "f", "t", "e", "r", " ", "3", "0",
    "s", " ", "t", "i", "m", "e", "o", "u", "t">>
\* 'Request completed with duration: 6500ms'
MsgSlow ==
  <<"R", "e", "q", "u", "e", "s", "t", " ", "c", "o", "m", "p", "l", "e",
    "t", "e", "d", " ", "w", "i", "t", "h", " ", "d", "u", "r", "a", "t",
    "i", "o", "n", ":", " ", "6", "5", "0", "0", "m", "s">>
\* '2023-12-01T10:30:00.123Z [ERROR] Database connection failed'
LineError ==
  <<"2", "0", "2", "3", "-", "1", "2", "-", "0", "1", "T", "1", "0", ":",
    "3", "0", ":", "0", "0", ".", "1", "2", "3", "Z", " ", "[", "E", "R",
    "R", "O", "R", "]", " ", "D", "a", "t", "a", "b", "a", "s", "e", " ",
    "c", "o", "n", "n", "e", "c", "t", "i", "o", "n", " ", "f", "a", "i",
    "l", "e", "d">>
\* '2023-13-45T10:30:00Z [ERROR] Exception in worker'
LineBadDate ==
  <<"2", "0", "2", "3", "-", "1", "3", "-", "4", "5", "T", "1", "0", ":",
    "3", "0", ":", "0", "0", "Z", " ", "[", "E", "R", "R", "O", "R", "]",
    " ", "E", "x", "c", "e", "p", "t", "i", "o", "n", " ", "i", "n", " ",
    "w", "o", "r", "k", "e", "r">>

\* 'GET /health 200 elapsed 100 ms'
MsgFast ==
  <<"G", "E", "T", " ", "/", "h", "e", "a", "l", "t", "h", " ", "2", "0",
    "0", " ", "e", "l", "a", "p", "s", "e", "d", " ", "1", "0", "0", " ",
    "m", "s">>
\* 'POST /api 500 Internal Server Error time: 9000ms Memory: 90%'
MsgFailure ==
  <<"P", "O", "S", "T", " ", "/", "a", "p", "i", " ", "5", "0", "0", " ",
    "I", "n", "t", "e", "r", "n", "a", "l", " ", "S", "e", "r", "v", "e",
    "r", " ", "E", "r", "r", "o", "r", " ", "t", "i", "m", "e", ":", " ",
    "9", "0", "0", "0", "m", "s", " ", "M", "e", "m", "o", "r", "y", ":",
    " ", "9", "0", "%">>

\* a text of n characters that match no pattern
Filler(n) == [i \in 1 .. n |-> "x"]
\* 'ERROR: xxx...', a message longer than the 500 characters that are kept
MsgLong == <<"E", "R", "R", "O", "R", ":", " ">> \o Filler(MaxMessage)

\* the message of an error that a client of AWS throws: 'Rate exceeded', and
\* a message longer than 500 characters
ErrRate == <<"R", "a", "t", "e", " ", "e", "x", "c", "e", "e", "d", "e", "d">>
ErrLong == ErrRate \o <<":", " ">> \o Filler(MaxMessage)
\* the message of the RangeError of toISOString
InvalidTime ==
  <<"I", "n", "v", "a", "l", "i", "d", " ", "t", "i", "m", "e", " ", "v", "a",
    "l", "u", "e">>

\* the characters of the regular expressions' classes
Whitespace == {" ", "\t", "\n"}
Digits == {"0", "1", "2", "3", "4", "5", "6", "7", "8", "9"}
UpperCase ==
  <<"A", "B", "C", "D", "E", "F", "G", "H", "I", "J", "K", "L", "M",
    "N", "O", "P", "Q", "R", "S", "T", "U", "V", "W", "X", "Y", "Z">>
LowerCase ==
  <<"a", "b", "c", "d", "e", "f", "g", "h", "i", "j", "k", "l", "m",
    "n", "o", "p", "q", "r", "s", "t", "u", "v", "w", "x", "y", "z">>

\* case folding of the i flag
CaseFold ==
  [c \in {UpperCase[k] : k \in DOMAIN UpperCase} |->
     LowerCase[CHOOSE k \in DOMAIN UpperCase : UpperCase[k] = c]]
Lower(c) == IF c \in DOMAIN CaseFold THEN CaseFold[c] ELSE c

\* one atom of a regular expression against one character: \d, \s, the class
\* [T\s], or a literal character
AtomMatches(atom, c, ignoreCase) ==
  CASE atom = "\\d" -> c \in Digits
    [] atom = "\\s" -> c \in Whitespace
    [] atom = "[T\\s]" -> c = "T" \/ c \in Whitespace
    [] OTHER -> IF ignoreCase THEN Lower(c) = Lower(atom) ELSE c = atom

RECURSIVE MatchEnd(_, _, _, _, _)
\* the atoms from position i on matched against text from position j on:
\* the position after the match, 0 when there is none; \s+ is greedy
MatchEnd(atoms, i, text, j, ignoreCase) ==
  IF i > Len(atoms) THEN j
  ELSE IF j > Len(text) THEN 0
  ELSE IF atoms[i] = "\\s+"
    THEN IF text[j] \notin Whitespace THEN 0
         ELSE LET more == MatchEnd(atoms, i, text, j + 1, ignoreCase)
              IN  IF more # 0 THEN more
                  ELSE MatchEnd(atoms, i + 1, text, j + 1, ignoreCase)
  ELSE IF AtomMatches(atoms[i], text[j], ignoreCase)
    THEN MatchEnd(atoms, i + 1, text, j + 1, ignoreCase)
  ELSE 0

\* the leftmost match of the atoms in text at or after position from:
\* index 0 when there is none
Search(atoms, text, from, ignoreCase) ==
  LET starts == {k \in from .. Len(text) + 1 :
                   MatchEnd(atoms, 1, text, k, ignoreCase) # 0}
  IN  IF starts = {} THEN [index |-> 0, end |-> 0]
      ELSE LET k == CHOOSE m \in starts : \A n \in starts : m <= n
           IN  [index |-> k, end |-> MatchEnd(atoms, 1, text, k, ignoreCase)]

\* RegExp.prototype.test on a regular expression whose lastIndex is
\* lastIndex (counted from 0): only a g flag makes the search start there
\* and makes the call move it
RegExpTest(regex, lastIndex, text) ==
  LET global == "g" \in regex.flags
      start == IF global THEN lastIndex ELSE 0
      m == IF start > Len(text) THEN [index |-> 0, end |-> 0]
           ELSE Search(regex.source, text, start + 1, "i" \in regex.flags)
  IN  [found |-> m.index # 0,
       lastIndex |-> IF global THEN (IF m.index # 0 THEN m.end - 1 ELSE 0)
                     ELSE lastIndex]

\* the flags of the error patterns once every pattern is global
errorFlags_Global == {"g", "i"}

\* the flags of the error patterns (/.../i)
errorFlags == {"i"}

\* the number of config.errorPatterns
NumErrorPatterns == 10

\* config.errorPatterns
errorPatterns ==
  <<[source |-> <<"E", "R", "R", "O", "R">>, flags |-> errorFlags],
    [source |-> <<"F", "A", "T", "A", "L">>, flags |-> errorFlags],
    [source |-> <<"E", "x", "c", "e", "p", "t", "i", "o", "n">>,
     flags |-> errorFlags],
    [source |-> <<"E", "r", "r", "o", "r", ":">>, flags |-> errorFlags],
    [source |-> <<"f", "a", "i", "l", "e", "d">>, flags |-> errorFlags],
    [source |-> <<"t", "i", "m", "e", "o", "u", "t">>, flags |-> errorFlags],
    [source |-> <<"5", "0", "0", "\\s+",
                  "I", "n", "t", "e", "r", "n", "a", "l">>,
     flags |-> errorFlags],
    [source |-> <<"5", "0", "2", "\\s+", "B", "a", "d", "\\s+",
                  "G", "a", "t", "e", "w", "a", "y">>,
     flags |-> errorFlags],
    [source |-> <<"5", "0", "3", "\\s+", "S", "e", "r", "v", "i", "c", "e",
                  "\\s+", "U", "n", "a", "v", "a", "i", "l", "a", "b", "l", "e">>,
     flags |-> errorFlags],
    [source |-> <<"5", "0", "4", "\\s+", "G", "a", "t", "e", "w", "a", "y",
                  "\\s+", "T", "i", "m", "e", "o", "u", "t">>,
     flags |-> errorFlags]>>

\* the lastIndex of every pattern of a list after it was created
FreshIndexes(patterns) == [k \in DOMAIN patterns |-> 0]

RECURSIVE SomeLoop(_, _, _, _)
\* patterns.some(pattern => pattern.test(message)) from pattern i on: the
\* patterns are tested in order until one matches
SomeLoop(patterns, i, lastIndexes, message) ==
  IF i > Len(patterns) THEN [result |-> FALSE, lastIndexes |-> lastIndexes]
  ELSE LET t == RegExpTest(patterns[i], lastIndexes[i], message)
           moved == [lastIndexes EXCEPT ![i] = t.lastIndex]
       IN  IF t.found THEN [result |-> TRUE, lastIndexes |-> moved]
           ELSE SomeLoop(patterns, i + 1, moved, message)

\* the patterns of config.errorPatterns that match a message
MatchingPatterns(message) ==
  {k \in 1 .. NumErrorPatterns :
     Search(errorPatterns[k].source, message, 1, TRUE).index # 0}

\* config.errorPatterns.some(pattern => pattern.test(message)); the patterns
\* have no g flag, so that their lastIndex stays 0
isError(message) ==
  SomeLoop(errorPatterns, 1, FreshIndexes(errorPatterns), message).result

\* the decimal digits, by value
DigitChars == <<"0", "1", "2", "3", "4", "5", "6", "7", "8", "9">>
DigitValue(c) == (CHOOSE k \in DOMAIN DigitChars : DigitChars[k] = c) - 1

RECURSIVE ToNumber(_)
\* the number that a sequence of digits denotes
ToNumber(digits) ==
  IF digits = <<>> THEN 0
  ELSE 10 * ToNumber(SubSeq(digits, 1, Len(digits) - 1))
       + DigitValue(digits[Len(digits)])

RECURSIVE Pad(_, _)
\* String(n).padStart(width, '0')
Pad(n, width) ==
  IF width = 0 THEN <<>>
  ELSE Pad(n \div 10, width - 1) \o <<DigitChars[(n % 10) + 1]>>

RECURSIVE RunEnd(_, _, _)
\* the position after the longest run of characters of a class that starts
\* at position j of text: j itself when there is none
RunEnd(text, j, class) ==
  IF j <= Len(text) /\ text[j] \in class THEN RunEnd(text, j + 1, class) ELSE j

\* the position after a word at position j of text, whatever the case of
\* its letters; 0 when the word is not there
WordEnd(text, j, word) == MatchEnd(word, 1, text, j, TRUE)

\* the position after one of the words at position j of text, 0 for none
AnyWordEnd(text, j, words) ==
  IF \E w \in words : WordEnd(text, j, w) # 0
    THEN WordEnd(text, j, CHOOSE w \in words : WordEnd(text, j, w) # 0)
    ELSE 0

\* the position after (?:\.\d+)? when the digits of \d+ at position j of
\* text end before position whole
DecimalsEnd(text, j, whole) ==
  IF /\ whole > j
     /\ whole <= Len(text)
     /\ text[whole] = "."
     /\ RunEnd(text, whole + 1, Digits) > whole + 1
    THEN RunEnd(text, whole + 1, Digits)
    ELSE whole

\* the position after \d+(?:\.\d+)? at position j of text, j for no match
NumberEnd(text, j) == DecimalsEnd(text, j, RunEnd(text, j, Digits))

\* the capture (\d+(?:\.\d+)?) that starts at position separator of text
\* and ends before position number, when a unit follows \s*
SampleAfterNumber(text, separator, number, units) ==
  IF /\ number > separator
     /\ AnyWordEnd(text, RunEnd(text, number, Whitespace), units) # 0
    THEN SubSeq(text, separator, number - 1)
    ELSE <<>>

\* the capture after [:\s]+, which starts at position word of text and ends
\* before position separator
SampleAfterSeparator(text, word, separator, units) ==
  IF separator > word
    THEN SampleAfterNumber(text, separator, NumberEnd(text, separator), units)
    ELSE <<>>

\* the capture after a keyword that ends before position word of text
SampleAfterWord(text, word, units) ==
  IF word # 0
    THEN SampleAfterSeparator(text, word,
                              RunEnd(text, word, {":"} \cup Whitespace), units)
    ELSE <<>>

\* a pattern keyword[:\s]+(\d+(?:\.\d+)?)\s*unit with the i flag, matched at
\* position k of text: the capture, <<>> when the pattern does not match
\* there. Each repetition is followed by characters that it cannot take, so
\* that the longest run is the only one that can match.
SampleAt(text, k, keywords, units) ==
  SampleAfterWord(text, AnyWordEnd(text, k, keywords), units)

\* the least of a set of positions
First(starts) == CHOOSE k \in starts : \A n \in starts : k <= n

\* the capture of the match that starts first, <<>> when there is none
SampleFrom(text, starts, keywords, units) ==
  IF starts = {} THEN <<>> ELSE SampleAt(text, First(starts), keywords, units)

\* text.match(pattern)[1] for such a pattern: the capture of the leftmost
\* match, <<>> when there is none
SampleMatch(text, keywords, units) ==
  SampleFrom(text,
             {k \in 1 .. Len(text) : SampleAt(text, k, keywords, units) # <<>>},
             keywords, units)

\* the number that a capture denotes when its digits before the decimal
\* point end before position whole
WholeNumber(text, whole) ==
  CASE \A i \in whole + 1 .. Len(text) : text[i] \in {".", "0"} ->
         ToNumber(SubSeq(text, 1, whole - 1))

\* parseFloat of a capture \d+(?:\.\d+)?; the samples of the model are whole
\* numbers, with or without a fraction of zeros
parseFloat(text) == WholeNumber(text, RunEnd(text, 1, Digits))

\* match ? parseFloat(match[1]) : nothing
Sample(capture) == IF capture = <<>> THEN Undefined ELSE parseFloat(capture)

\* the words of the response time pattern and of the memory pattern
responseTimeWords ==
  {<<"d", "u", "r", "a", "t", "i", "o", "n">>, <<"t", "i", "m", "e">>,
   <<"e", "l", "a", "p", "s", "e", "d">>}
responseTimeUnits ==
  {<<"m", "s">>, <<"m", "i", "l", "l", "i", "s", "e", "c", "o", "n", "d", "s">>}
memoryWords == {<<"m", "e", "m", "o", "r", "y">>}
memoryUnits == {<<"m", "b">>, <<"g", "b">>, <<"%">>}

\* the capture of the response time pattern in extractMetrics as a number,
\* Undefined when the pattern does not match
responseTimeMatch(message) ==
  Sample(SampleMatch(message, responseTimeWords, responseTimeUnits))

\* the capture of the memory pattern in extractMetrics as a number
memoryMatch(message) == Sample(SampleMatch(message, memoryWords, memoryUnits))

\* the characters of \w
WordChars ==
  Digits \cup {"_"} \cup {UpperCase[k] : k \in DOMAIN UpperCase}
         \cup {LowerCase[k] : k \in DOMAIN LowerCase}

\* /\b([1-5]\d{2})\b/ matches at position k of text
StatusAt(text, k) ==
  /\ k + 2 <= Len(text)
  /\ text[k] \in {"1", "2", "3", "4", "5"}
  /\ text[k + 1] \in Digits
  /\ text[k + 2] \in Digits
  /\ k > 1 => text[k - 1] \notin WordChars
  /\ k + 3 <= Len(text) => text[k + 3] \notin WordChars

\* the three digits of the match that starts first, as a number
StatusFrom(message, starts) ==
  IF starts = {} THEN Undefined
  ELSE ToNumber(SubSeq(message, First(starts), First(starts) + 2))

\* the capture of the status code pattern in extractMetrics as the number
\* that the property name of the tally denotes, Undefined for no match
statusMatch(message) ==
  StatusFrom(message, {k \in 1 .. Len(message) : StatusAt(message, k)})

\* the patterns of extractTimestamp, in order; the first one without its
\* two optional groups
timestampPatterns ==
  <<<<"\\d", "\\d", "\\d", "\\d", "-", "\\d", "\\d", "-", "\\d", "\\d", "[T\\s]",
      "\\d", "\\d", ":", "\\d", "\\d", ":", "\\d", "\\d">>,
    <<"\\d", "\\d", "/", "\\d", "\\d", "/", "\\d", "\\d", "\\d", "\\d", "\\s+",
      "\\d", "\\d", ":", "\\d", "\\d", ":", "\\d", "\\d">>,
    <<"\\d", "\\d", "\\d", "\\d", "/", "\\d", "\\d", "/", "\\d", "\\d", "\\s+",
      "\\d", "\\d", ":", "\\d", "\\d", ":", "\\d", "\\d">>>>

\* the optional group (?:\.\d{3})? of the first pattern at position e of line
FractionEnd(line, e) ==
  IF /\ e + 3 <= Len(line)
     /\ line[e] = "."
     /\ \A k \in 1 .. 3 : line[e + k] \in Digits
    THEN e + 4
    ELSE e

\* the optional group (?:Z|[+-]\d{2}:\d{2})? of the first pattern at e
ZoneEnd(line, e) ==
  IF e <= Len(line) /\ line[e] = "Z" THEN e + 1
  ELSE IF /\ e + 5 <= Len(line)
          /\ line[e] \in {"+", "-"}
          /\ line[e + 1] \in Digits /\ line[e + 2] \in Digits
          /\ line[e + 3] = ":"
          /\ line[e + 4] \in Digits /\ line[e + 5] \in Digits
    THEN e + 6
  ELSE e

\* line.match(pattern)[1] for pattern k of extractTimestamp, <<>> when the
\* pattern does not match
TimestampMatch(line, k) ==
  LET m == Search(timestampPatterns[k], line, 1, FALSE)
      end == IF k = 1 THEN ZoneEnd(line, FractionEnd(line, m.end)) ELSE m.end
  IN  IF m.index = 0 THEN <<>> ELSE SubSeq(line, m.index, end - 1)

\* new Date(text) for a text that pattern k captured: the fields of the
\* date, which is valid when every field is in its range. A date and time
\* without zone is local time, and the function runs with the time zone UTC.
NewDate(text, k) ==
  LET n == Len(text)
      date == IF k = 2
                THEN [year |-> SubSeq(text, 7, 10), month |-> SubSeq(text, 1, 2),
                      day |-> SubSeq(text, 4, 5)]
                ELSE [year |-> SubSeq(text, 1, 4), month |-> SubSeq(text, 6, 7),
                      day |-> SubSeq(text, 9, 10)]
      time == IF k = 1 THEN SubSeq(text, 12, 19) ELSE SubSeq(text, n - 7, n)
      ms == IF k = 1 /\ n >= 23 /\ text[20] = "." THEN SubSeq(text, 21, 23)
            ELSE <<"0", "0", "0">>
      fields == [year |-> ToNumber(date.year), month |-> ToNumber(date.month),
                 day |-> ToNumber(date.day),
                 hours |-> ToNumber(SubSeq(time, 1, 2)),
                 minutes |-> ToNumber(SubSeq(time, 4, 5)),
                 seconds |-> ToNumber(SubSeq(time, 7, 8)),
                 milliseconds |-> ToNumber(ms)]
  IN  [valid |-> /\ fields.month \in 1 .. 12
                 /\ fields.day \in 1 .. 31
                 /\ fields.hours \in 0 .. 23
                 /\ fields.minutes \in 0 .. 59
                 /\ fields.seconds \in 0 .. 59,
       fields |-> fields]

\* Date.prototype.toISOString: YYYY-MM-DDTHH:mm:ss.sssZ, and a RangeError
\* for an invalid date
toISOString(date) ==
  IF ~ date.valid THEN [threw |-> TRUE, value |-> <<>>]
  ELSE [threw |-> FALSE,
        value |-> Pad(date.fields.year, 4) \o <<"-">>
                  \o Pad(date.fields.month, 2) \o <<"-">>
                  \o Pad(date.fields.day, 2) \o <<"T">>
                  \o Pad(date.fields.hours, 2) \o <<":">>
                  \o Pad(date.fields.minutes, 2) \o <<":">>
                  \o Pad(date.fields.seconds, 2) \o <<".">>
                  \o Pad(date.fields.milliseconds, 3) \o <<"Z">>]

\* new Date(ms) for a number of milliseconds since the epoch that is less
\* than an hour, as the clock of the model is; a value that is not a number
\* gives an invalid date
DateOfMs(ms) ==
  [valid |-> ms # Undefined,
   fields |-> [year |-> 1970, month |-> 1, day |-> 1, hours |-> 0,
               minutes |-> (ms \div 60000) % 60,
               seconds |-> (ms \div 1000) % 60,
               milliseconds |-> ms % 1000]]

RECURSIVE TimestampLoop(_, _)
\* for (const pattern of patterns) of extractTimestamp from pattern k on
TimestampLoop(line, k) ==
  IF k > Len(timestampPatterns) THEN [threw |-> FALSE, value |-> <<>>]
  ELSE LET match == TimestampMatch(line, k)
       IN  IF match # <<>> THEN toISOString(NewDate(match, k))
           ELSE TimestampLoop(line, k + 1)

\* LogAnalyzer.extractTimestamp: the ISO text of the first pattern's match,
\* an empty value for null, or a thrown RangeError
extractTimestamp(line) == TimestampLoop(line, 1)

RECURSIVE SumSeq(_)
\* values.reduce((a, b) => a + b)
SumSeq(values) ==
  IF values = <<>> THEN 0 ELSE Head(values) + SumSeq(Tail(values))

RECURSIVE Insert(_, _)
Insert(sorted, v) ==
  IF sorted = <<>> THEN <<v>>
  ELSE IF v < Head(sorted) THEN <<v>> \o sorted
  ELSE <<Head(sorted)>> \o Insert(Tail(sorted), v)

RECURSIVE SortAsc(_)
\* values.slice().sort((a, b) => a - b)
SortAsc(values) ==
  IF values = <<>> THEN <<>> ELSE Insert(SortAsc(Tail(values)), Head(values))

\* Math.ceil(a / b) for a >= 0 and b > 0
CeilDiv(a, b) == (a + b - 1) \div b

\* calculatePercentile on the values in the order they were passed in
calculatePercentile_Unsorted(values, percentile) ==
  LET index == CeilDiv(percentile * Len(values), 100) - 1
  IN  IF index + 1 \in DOMAIN values THEN values[index + 1] ELSE 0

\* LogAnalyzer.calculatePercentile
calculatePercentile(values, percentile) ==
  LET sorted == SortAsc(values)
      index == CeilDiv(percentile * Len(sorted), 100) - 1
  IN  IF index + 1 \in DOMAIN sorted THEN sorted[index + 1] ELSE 0

\* Math.round(sum / n) for sum >= 0 and n > 0
RoundDiv(sum, n) == (2 * sum + n) \div (2 * n)

\* metrics.statusCodes[status] = (metrics.statusCodes[status] || 0) + 1
Tally(statusCodes, status) ==
  [k \in (DOMAIN statusCodes) \cup {status} |->
     IF k = status
       THEN (IF status \in DOMAIN statusCodes THEN statusCodes[status] ELSE 0) + 1
       ELSE statusCodes[k]]

\* the metrics with the response time, the memory usage and the status
\* code that were matched, each Undefined for no match
Recorded(metrics, rt, mem, status) ==
  [metrics EXCEPT
     !.responseTimes = IF rt # Undefined THEN Append(@, rt) ELSE @,
     !.memoryUsage = IF mem # Undefined THEN Append(@, mem) ELSE @,
     !.statusCodes = IF status # Undefined THEN Tally(@, status) ELSE @]

\* extractMetrics that forgets the samples of the earlier records
extractMetrics_Latest(message, metrics) ==
  Recorded([metrics EXCEPT !.responseTimes = <<>>, !.memoryUsage = <<>>],
           responseTimeMatch(message), memoryMatch(message), statusMatch(message))

\* LogAnalyzer.extractMetrics on the sample sequences and the tally of
\* metrics; a sequence or a tally that is missing is one that is empty
extractMetrics(message, metrics) ==
  Recorded(metrics, responseTimeMatch(message), memoryMatch(message),
           statusMatch(message))

\* checkThresholds with an error count check that fires at the threshold
errorCountCheck_AtLeast(metrics, source) ==
  IF metrics.total > 0 /\ metrics.errorCount >= maxErrors
    THEN <<[metric |-> "Error Count", value |-> metrics.errorCount,
            threshold |-> maxErrors, comparison |-> "exceeds",
            source |-> source]>>
    ELSE <<>>

\* checkThresholds, "Check error rate"; total is metrics.totalEvents or
\* metrics.totalLines
errorCountCheck(metrics, source) ==
  IF metrics.total > 0 /\ metrics.errorCount > maxErrors
    THEN <<[metric |-> "Error Count", value |-> metrics.errorCount,
            threshold |-> maxErrors, comparison |-> "exceeds",
            source |-> source]>>
    ELSE <<>>

\* the violation of the average response time, if any
avgResponseTimeCheck(metrics, source) ==
  LET n == Len(metrics.responseTimes)
  IN  IF SumSeq(metrics.responseTimes) > maxAvgResponseTime * n
        THEN <<[metric |-> "Average Response Time",
                value |-> RoundDiv(SumSeq(metrics.responseTimes), n),
                threshold |-> maxAvgResponseTime, comparison |-> "exceeds",
                source |-> source]>>
        ELSE <<>>

\* the violation of the 95th percentile of the response times, if any
p95ResponseTimeCheck(metrics, source) ==
  LET p95ResponseTime == calculatePercentile(metrics.responseTimes, 95)
  IN  IF p95ResponseTime > maxP95ResponseTime
        THEN <<[metric |-> "P95 Response Time", value |-> p95ResponseTime,
                threshold |-> maxP95ResponseTime, comparison |-> "exceeds",
                source |-> source]>>
        ELSE <<>>

\* checkThresholds with a percentile check inside the average check
responseTimeChecks_Nested(metrics, source) ==
  IF Len(metrics.responseTimes) > 0
    THEN LET avg == avgResponseTimeCheck(metrics, source)
         IN  IF avg = <<>> THEN <<>>
             ELSE avg \o p95ResponseTimeCheck(metrics, source)
    ELSE <<>>

\* checkThresholds, "Check response times"
responseTimeChecks(metrics, source) ==
  IF Len(metrics.responseTimes) > 0
    THEN avgResponseTimeCheck(metrics, source)
         \o p95ResponseTimeCheck(metrics, source)
    ELSE <<>>

\* checkThresholds with a memory check of the last sample
memoryCheck_Last(metrics, source) ==
  LET k == Len(metrics.memoryUsage)
  IN  IF k > 0 /\ metrics.memoryUsage[k] > maxMemoryPercent
        THEN <<[metric |-> "Memory Usage",
                value |-> 10 * metrics.memoryUsage[k],
                threshold |-> maxMemoryPercent, comparison |-> "exceeds",
                source |-> source]>>
        ELSE <<>>

\* checkThresholds, "Check memory usage"; the value of the violation is in
\* tenths
memoryCheck(metrics, source) ==
  LET k == Len(metrics.memoryUsage)
  IN  IF k > 0 /\ SumSeq(metrics.memoryUsage) > maxMemoryPercent * k
        THEN <<[metric |-> "Memory Usage",
                value |-> RoundDiv(10 * SumSeq(metrics.memoryUsage), k),
                threshold |-> maxMemoryPercent, comparison |-> "exceeds",
                source |-> source]>>
        ELSE <<>>

\* checkThresholds with the memory check before the others
checkThresholds_MemoryFirst(metrics, source) ==
  memoryCheck(metrics, source)
  \o errorCountCheck(metrics, source)
  \o responseTimeChecks(metrics, source)

\* LogAnalyzer.checkThresholds
checkThresholds(metrics, source) ==
  errorCountCheck(metrics, source)
  \o responseTimeChecks(metrics, source)
  \o memoryCheck(metrics, source)

\* a results object that counts one record more than the batch has
EmptyBatch_Counted(count) ==
  [errors |-> <<>>,
   metrics |-> [total |-> count + 1, errorCount |-> 0, responseTimes |-> <<>>,
                memoryUsage |-> <<>>, statusCodes |-> <<>>],
   violations |-> <<>>,
   threw |-> FALSE]

\* the results object that both process functions start from; total is
\* totalEvents or totalLines
EmptyBatch(count) ==
  [errors |-> <<>>,
   metrics |-> [total |-> count, errorCount |-> 0, responseTimes |-> <<>>,
                memoryUsage |-> <<>>, statusCodes |-> <<>>],
   violations |-> <<>>,
   threw |-> FALSE]

\* one more classified error, put before the others
Classified_First(acc, entry) ==
  [acc EXCEPT !.errors = <<entry>> \o @, !.metrics.errorCount = @ + 1]

\* one more classified error
Classified(acc, entry) ==
  [acc EXCEPT !.errors = Append(@, entry), !.metrics.errorCount = @ + 1]

\* the metrics of one more record
Extracted(acc, message) ==
  [acc EXCEPT !.metrics = extractMetrics(message, @)]

\* message.substring(0, 500)
Truncate(message) ==
  SubSeq(message, 1, IF Len(message) < MaxMessage THEN Len(message) ELSE MaxMessage)

RECURSIVE EventsLoop(_, _, _, _)
\* the callback of events.forEach(...) of processLogEvents for event i, whose
\* timestamp has been converted and whose message has been classified
EventStep(events, i, logGroup, acc, timestamp, matched) ==
  LET message == events[i].message
      entry == [timestamp |-> timestamp.value, logGroup |-> logGroup,
                message |-> Truncate(message), source |-> "cloudwatch"]
      checked == IF matched THEN Classified(acc, entry) ELSE acc
  IN  IF timestamp.threw
        THEN [acc EXCEPT !.threw = TRUE]
        ELSE EventsLoop(events, i + 1, logGroup, Extracted(checked, message))

\* events.forEach(...) of processLogEvents from event i on; the loop ends
\* with threw set when toISOString throws
EventsLoop(events, i, logGroup, acc) ==
  IF i > Len(events) THEN acc
  ELSE EventStep(events, i, logGroup, acc,
                 toISOString(DateOfMs(events[i].timestamp)),
                 isError(events[i].message))

\* LogAnalyzer.processLogEvents
processLogEvents(events, logGroup) ==
  LET results == EventsLoop(events, 1, logGroup, EmptyBatch(Len(events)))
  IN  IF results.threw THEN results
      ELSE [results EXCEPT !.violations = checkThresholds(results.metrics, logGroup)]

RECURSIVE LinesLoop(_, _, _, _)
\* the callback of lines.forEach(...) of processLogLines for line i, which
\* has been classified; the timestamp is extracted for a matching line only
LineStep(lines, i, source, acc, matched, extracted) ==
  LET line == lines[i]
      entry == [timestamp |-> IF extracted.value = <<>>
                                THEN toISOString(DateOfMs(now)).value
                                ELSE extracted.value,
                logGroup |-> "none",
                message |-> Truncate(line), source |-> source]
      checked == IF matched THEN Classified(acc, entry) ELSE acc
  IN  IF matched /\ extracted.threw
        THEN [acc EXCEPT !.threw = TRUE]
        ELSE LinesLoop(lines, i + 1, source, Extracted(checked, line))

\* lines.forEach(...) of processLogLines from line i on; the loop ends with
\* threw set when extractTimestamp throws
LinesLoop(lines, i, source, acc) ==
  IF i > Len(lines) THEN acc
  ELSE LineStep(lines, i, source, acc, isError(lines[i]), extractTimestamp(lines[i]))

\* LogAnalyzer.processLogLines
processLogLines(lines, source) ==
  LET results == LinesLoop(lines, 1, source, EmptyBatch(Len(lines)))
  IN  IF results.threw THEN results
      ELSE [results EXCEPT !.violations = checkThresholds(results.metrics, source)]

\* ------------------------------------------------------------------------
\* LogAnalyzer: the analysis of the sources
\* ------------------------------------------------------------------------
\* an empty object {}
EmptyObject == [k \in {} |-> 0]

\* results = { errors: [], metrics: {}, violations: [] }
EmptyResults == [errors |-> <<>>, metrics |-> EmptyObject, violations |-> <<>>]

\* target[key] = value
ObjectSet(target, key, value) ==
  [k \in (DOMAIN target) \cup {key} |-> IF k = key THEN value ELSE target[k]]

\* { ...a, ...b } and Object.assign(a, b)
ObjectAssign(a, b) ==
  [k \in (DOMAIN a) \cup (DOMAIN b) |-> IF k \in DOMAIN b THEN b[k] ELSE a[k]]

\* the metrics object of processLogLines with its own property names
LinesMetrics(metrics) ==
  LET base == [k \in {"totalLines", "errorCount", "responseTimes", "statusCodes"} |->
                 CASE k = "totalLines" -> [n |-> metrics.total]
                   [] k = "errorCount" -> [n |-> metrics.errorCount]
                   [] k = "responseTimes" -> [samples |-> metrics.responseTimes]
                   [] OTHER -> [tally |-> metrics.statusCodes]]
  IN  IF metrics.memoryUsage = <<>> THEN base
      ELSE ObjectSet(base, "memoryUsage", [samples |-> metrics.memoryUsage])

\* what FilterLogEvents may answer for one log group
EventBatches ==
  {<<>>,
   <<[timestamp |-> 1000, message |-> MsgInfo],
     [timestamp |-> 2500, message |-> MsgError]>>,
   <<[timestamp |-> 61007, message |-> MsgSlow]>>,
   <<[timestamp |-> 3000, message |-> MsgLong]>>}
CwResponses ==
  {[throws |-> TRUE, error |-> e, events |-> <<>>] : e \in {ErrRate, ErrLong}}
    \cup {[throws |-> FALSE, error |-> <<>>, events |-> b] : b \in EventBatches}

\* the S3 objects of the model: key and minutes since LastModified
FileA == [Key |-> "logs/a.log", age |-> 10]
FileOld == [Key |-> "logs/old.log", age |-> 120]
FileB == [Key |-> "logs/b.log.gz", age |-> 30]

\* what ListObjectsV2 may answer
ListResponses ==
  {[throws |-> TRUE, error |-> e, Contents |-> <<>>] : e \in {ErrRate, ErrLong}}
    \cup {[throws |-> FALSE, error |-> <<>>, Contents |-> l] :
            l \in {<<>>, <<FileA>>, <<FileA, FileOld, FileB>>}}

\* what GetObject and the decompression may give for one file
FileResponses ==
  {[throws |-> TRUE, lines |-> <<>>]}
    \cup {[throws |-> FALSE, lines |-> l] :
            l \in {<<LineError>>, <<MsgInfo, MsgSlow>>, <<LineBadDate>>,
                   <<MsgLong>>}}

\* the entry that analyzeCloudWatchLogs pushes when a log group fails with
\* an error of the given message
GroupFailure(logGroup, error) ==
  [timestamp |-> toISOString(DateOfMs(now)).value,
   logGroup |-> logGroup,
   message |->
    <<"F", "a", "i", "l", "e", "d", " ", "t", "o", " ", "a", "n", "a", "l",
      "y", "z", "e", " ", "l", "o", "g", " ", "g", "r", "o", "u", "p", ":",
      " ">> \o error,
   source |-> "log-analyzer"]

\* the entry that analyzeS3Logs pushes when it fails with an error of the
\* given message
S3Failure(error) ==
  [timestamp |-> toISOString(DateOfMs(now)).value,
   logGroup |-> "none",
   message |->
    <<"F", "a", "i", "l", "e", "d", " ", "t", "o", " ", "a", "n", "a", "l",
      "y", "z", "e", " ", "S", "3", " ", "l", "o", "g", "s", ":", " ">>
      \o error,
   source |-> "s3-analyzer"]

\* analyzeCloudWatchLogs: the results of one log group are merged into the
\* results so far; a log group whose processing threw is reported as failed
mergeLogGroupResults(results, logGroup, logGroupResults, failure) ==
  IF logGroupResults.threw
    THEN [results EXCEPT !.errors = Append(@, failure)]
    ELSE [errors |-> results.errors \o logGroupResults.errors,
          metrics |-> ObjectSet(results.metrics, logGroup, logGroupResults.metrics),
          violations |-> results.violations \o logGroupResults.violations]

\* the body of the loop of analyzeCloudWatchLogs for one log group
analyzeLogGroup(results, logGroup, response) ==
  IF response.throws
    THEN [results EXCEPT !.errors = Append(@, GroupFailure(logGroup, response.error))]
  ELSE IF Len(response.events) > 0
    THEN mergeLogGroupResults(results, logGroup,
                              processLogEvents(response.events, logGroup),
                              GroupFailure(logGroup, InvalidTime))
  ELSE results

\* analyzeS3Logs: the results of one file are merged into the results so far;
\* a file whose fetch or processing threw is skipped
mergeFileResults(results, response, fileResults) ==
  IF response.throws \/ fileResults.threw THEN results
  ELSE [errors |-> results.errors \o fileResults.errors,
        metrics |-> ObjectAssign(results.metrics, LinesMetrics(fileResults.metrics)),
        violations |-> results.violations \o fileResults.violations]

\* the body of the loop of analyzeS3Logs for one file
analyzeFile(results, key, response) ==
  mergeFileResults(results, response, processLogLines(response.lines, key))

\* moment(obj.LastModified).isAfter(cutoffTime)
IsRecent(file) == file.age < lookbackMinutes

\* listResponse.Contents.filter(...)
RecentFiles(contents) == SelectSeq(contents, IsRecent)

\* files.slice(0, count)
Slice(files, count) ==
  SubSeq(files, 1, IF Len(files) < count THEN Len(files) ELSE count)

\* a loop of analyzeCloudWatchLogs that stops at the first failing log group
CwGroup_Abort(response) ==
  /\ apc = "running"
  /\ cwIndex <= Len(logGroups)
  /\ cwResults' = analyzeLogGroup(cwResults, logGroups[cwIndex], response)
  /\ cwIndex' = IF response.throws THEN Len(logGroups) + 1 ELSE cwIndex + 1
  /\ responses' = ObjectSet(responses, logGroups[cwIndex], response)
  /\ UNCHANGED <<apc, s3pc, s3Files, s3Index, s3Results, combinedResults>>

\* analyzeCloudWatchLogs: the next log group is fetched and processed
CwGroup(response) ==
  /\ apc = "running"
  /\ cwIndex <= Len(logGroups)
  /\ cwResults' = analyzeLogGroup(cwResults, logGroups[cwIndex], response)
  /\ cwIndex' = cwIndex + 1
  /\ responses' = ObjectSet(responses, logGroups[cwIndex], response)
  /\ UNCHANGED <<apc, s3pc, s3Files, s3Index, s3Results, combinedResults>>

\* analyzeS3Logs: the bucket is listed and the recent files are selected
S3List(response) ==
  /\ apc = "running"
  /\ s3pc = "list"
  /\ responses' = ObjectSet(responses, "s3", response)
  /\ IF response.throws
       THEN /\ s3Results' = [s3Results EXCEPT !.errors = Append(@, S3Failure(response.error))]
            /\ s3pc' = "done"
            /\ UNCHANGED <<s3Files, s3Index>>
       ELSE /\ s3Files' = IF Len(response.Contents) = 0 THEN <<>>
                          ELSE Slice(RecentFiles(response.Contents), MaxS3Files)
            /\ s3Index' = 1
            /\ s3pc' = IF s3Files' = <<>> THEN "done" ELSE "files"
            /\ UNCHANGED s3Results
  /\ UNCHANGED <<apc, cwIndex, cwResults, combinedResults>>

\* analyzeS3Logs: the next file is fetched and processed
S3File(response) ==
  /\ apc = "running"
  /\ s3pc = "files"
  /\ s3Results' = analyzeFile(s3Results, s3Files[s3Index].Key, response)
  /\ responses' = ObjectSet(responses, s3Files[s3Index].Key, response)
  /\ s3Index' = s3Index + 1
  /\ s3pc' = IF s3Index' > Len(s3Files) THEN "done" ELSE "files"
  /\ UNCHANGED <<apc, cwIndex, cwResults, s3Files, combinedResults>>

\* analyzeLogs that puts the results of S3 before those of CloudWatch
Combine_S3First ==
  /\ apc = "running"
  /\ cwIndex > Len(logGroups)
  /\ s3pc = "done"
  /\ combinedResults' =
       [errors |-> s3Results.errors \o cwResults.errors,
        metrics |-> ObjectAssign(cwResults.metrics, s3Results.metrics),
        violations |-> s3Results.violations \o cwResults.violations,
        summary |->
          [totalErrors |-> Len(cwResults.errors) + Len(s3Results.errors),
           totalViolations |-> Len(cwResults.violations) + Len(s3Results.violations),
           cloudWatchSources |-> Cardinality(DOMAIN cwResults.metrics),
           s3Sources |-> Cardinality(DOMAIN s3Results.metrics)]]
  /\ apc' = "done"
  /\ UNCHANGED <<cwIndex, cwResults, s3pc, s3Files, s3Index, s3Results, responses>>

\* analyzeLogs: both analyses have returned and their results are combined
Combine ==
  /\ apc = "running"
  /\ cwIndex > Len(logGroups)
  /\ s3pc = "done"
  /\ combinedResults' =
       [errors |-> cwResults.errors \o s3Results.errors,
        metrics |-> ObjectAssign(cwResults.metrics, s3Results.metrics),
        violations |-> cwResults.violations \o s3Results.violations,
        summary |->
          [totalErrors |-> Len(cwResults.errors) + Len(s3Results.errors),
           totalViolations |-> Len(cwResults.violations) + Len(s3Results.violations),
           cloudWatchSources |-> Cardinality(DOMAIN cwResults.metrics),
           s3Sources |-> Cardinality(DOMAIN s3Results.metrics)]]
  /\ apc' = "done"
  /\ UNCHANGED <<cwIndex, cwResults, s3pc, s3Files, s3Index, s3Results, responses>>

\* ------------------------------------------------------------------------
\* Calls of the functions of the analyzer
\* ------------------------------------------------------------------------
\* pieces of text that the messages to classify are made of
Fragments ==
  {<<"E", "R", "R">>, <<"o", "r">>, <<":">>, <<" ">>, <<"5", "0", "0">>,
   <<"I", "n", "t", "e", "r", "n", "a", "l">>, <<"F", "a", "T", "a", "l">>}

RECURSIVE Texts(_)
\* the texts of at most n fragments
Texts(n) ==
  IF n = 0 THEN {<<>>}
  ELSE LET shorter == Texts(n - 1)
       IN  shorter \cup {t \o f : t \in shorter, f \in Fragments}

\* the orders in which the patterns of config.errorPatterns may be listed
PatternOrders ==
  {[k \in 1 .. NumErrorPatterns |-> k],
   [k \in 1 .. NumErrorPatterns |-> NumErrorPatterns + 1 - k]}

\* a call leaves the variables of the services alone
CallOnly == UNCHANGED <<alertVars, handlerVars, analyzeVars, pass>>

\* the arguments of a call that is going to be made
ClassifyInputs ==
  {[fn |-> "classify", message |-> message] : message \in Texts(MaxFragments)}

\* config.errorPatterns.some(pattern => pattern.test(message)) with the
\* patterns listed in the given order; the regular expressions are the
\* objects of the configuration, which keep their lastIndex between calls
Classify(order) ==
  LET patterns == [k \in 1 .. NumErrorPatterns |-> errorPatterns[order[k]]]
      indexes == [k \in 1 .. NumErrorPatterns |-> lastIndexOf[order[k]]]
      some == SomeLoop(patterns, 1, indexes, input.message)
  IN  /\ input.fn = "classify"
      /\ op' = "classify"
      /\ output' = [threw |-> FALSE, value |-> some.result, order |-> order,
                     again |-> op = "classify"]
      /\ lastIndexOf' =
           [p \in 1 .. NumErrorPatterns |->
              some.lastIndexes[CHOOSE k \in 1 .. NumErrorPatterns : order[k] = p]]
      /\ UNCHANGED input
      /\ CallOnly

RECURSIVE SeqsUpTo(_, _)
\* the sequences of at most n elements of S
SeqsUpTo(S, n) ==
  IF n = 0 THEN {<<>>}
  ELSE LET shorter == SeqsUpTo(S, n - 1)
       IN  shorter \cup {Append(q, x) : q \in shorter, x \in S}

\* the events that a batch of CloudWatch events is made of
Events ==
  {[timestamp |-> 1000, message |-> MsgInfo],
   [timestamp |-> 2500, message |-> MsgError],
   [timestamp |-> 61007, message |-> MsgSlow],
   [timestamp |-> 3000, message |-> MsgLong]}

\* the lines that the content of an S3 file is made of: LineError has a
\* timestamp, MsgError has none and the date of LineBadDate is not a date
Lines == {MsgInfo, MsgError, MsgSlow, LineError, LineBadDate, MsgLong}

EventsInputs ==
  {[fn |-> "processLogEvents", records |-> events, source |-> logGroups[1]] :
     events \in SeqsUpTo(Events, MaxBatch)}

LinesInputs ==
  {[fn |-> "processLogLines", records |-> lines, source |-> FileA.Key] :
     lines \in SeqsUpTo(Lines, MaxBatch)}

\* what a call returned, or that it threw
CallResult(results) ==
  IF results.threw THEN [threw |-> TRUE, value |-> <<>>]
  ELSE [threw |-> FALSE,
        value |-> [errors |-> results.errors, metrics |-> results.metrics,
                   violations |-> results.violations]]

\* logAnalyzer.processLogEvents(events, logGroup)
ProcessLogEvents ==
  /\ input.fn = "processLogEvents"
  /\ op = "none"
  /\ op' = "processLogEvents"
  /\ output' = CallResult(processLogEvents(input.records, input.source))
  /\ UNCHANGED <<input, lastIndexOf>>
  /\ CallOnly

\* logAnalyzer.processLogLines(lines, key)
ProcessLogLines ==
  /\ input.fn = "processLogLines"
  /\ op = "none"
  /\ op' = "processLogLines"
  /\ output' = CallResult(processLogLines(input.records, input.source))
  /\ UNCHANGED <<input, lastIndexOf>>
  /\ CallOnly

\* response times (ms) around the two thresholds
ResponseTimes ==
  {0, maxAvgResponseTime, maxAvgResponseTime + 1, maxP95ResponseTime,
   maxP95ResponseTime + 1}

\* memory usage samples (percent) around the threshold
MemorySamples ==
  {<<>>, <<maxMemoryPercent>>, <<maxMemoryPercent + 5>>,
   <<maxMemoryPercent - 5, maxMemoryPercent + 5>>,
   <<maxMemoryPercent - 5, maxMemoryPercent + 6>>,
   <<maxMemoryPercent + 5, maxMemoryPercent - 10>>}

\* the metrics objects that checkThresholds is called with
MetricsInputs ==
  {[fn |-> "checkThresholds",
    metrics |-> [total |-> total, errorCount |-> errorCount,
                 responseTimes |-> times, memoryUsage |-> memory],
    source |-> logGroups[1]] :
     total \in {0, 2 * maxErrors},
     errorCount \in {0, maxErrors, maxErrors + 1},
     times \in SeqsUpTo(ResponseTimes, MaxSamples),
     memory \in MemorySamples}

\* logAnalyzer.checkThresholds(metrics, source)
CheckThresholds ==
  /\ input.fn = "checkThresholds"
  /\ op = "none"
  /\ op' = "checkThresholds"
  /\ output' = [threw |-> FALSE,
                 value |-> checkThresholds(input.metrics, input.source)]
  /\ UNCHANGED <<input, lastIndexOf>>
  /\ CallOnly

\* the array that was passed to calculatePercentile as the call leaves it:
\* the function sorts values.slice(), a copy
valuesAfterCall(values) == values

\* the samples and the percentiles that calculatePercentile is called with;
\* response times are the numbers that extractMetrics captured, none is
\* negative
PercentileSamples == {0, 100, 200}
Percentiles == {0, 1, 34, 50, 67, 95, 100}

PercentileInputs ==
  {[fn |-> "calculatePercentile", values |-> values, percentile |-> p] :
     values \in SeqsUpTo(PercentileSamples, MaxSamples), p \in Percentiles}

\* logAnalyzer.calculatePercentile(values, percentile)
CalculatePercentile ==
  /\ input.fn = "calculatePercentile"
  /\ op = "none"
  /\ op' = "calculatePercentile"
  /\ output' = [threw |-> FALSE,
                 value |-> calculatePercentile(input.values, input.percentile),
                 values |-> valuesAfterCall(input.values)]
  /\ UNCHANGED <<input, lastIndexOf>>
  /\ CallOnly

\* the timestamps of the lines that extractTimestamp is called with, in
\* the three formats, with months, days and hours in and out of range
IsoStamps ==
  {<<"2", "0", "2", "3", "-">> \o month \o <<"-">> \o day \o sep \o hour
     \o <<":", "3", "0", ":", "0", "0">> \o fraction \o zone :
     month \in {<<"1", "2">>, <<"1", "3">>},
     day \in {<<"0", "1">>, <<"4", "5">>},
     sep \in {<<"T">>, <<" ">>},
     hour \in {<<"1", "0">>, <<"2", "5">>},
     fraction \in {<<>>, <<".", "1", "2", "3">>},
     zone \in {<<>>, <<"Z">>}}

UsStamps ==
  {month \o <<"/">> \o day \o <<"/", "2", "0", "2", "3">> \o sep \o hour
     \o <<":", "3", "0", ":", "0", "0">> :
     month \in {<<"1", "2">>, <<"1", "3">>},
     day \in {<<"0", "1">>, <<"4", "5">>},
     sep \in {<<" ">>, <<" ", " ">>},
     hour \in {<<"1", "0">>, <<"2", "5">>}}

SlashStamps ==
  {<<"2", "0", "2", "3", "/">> \o month \o <<"/">> \o day \o <<" ">> \o hour
     \o <<":", "3", "0", ":", "0", "0">> :
     month \in {<<"1", "2">>, <<"1", "3">>},
     day \in {<<"0", "1">>, <<"4", "5">>},
     hour \in {<<"1", "0">>, <<"2", "5">>}}

\* ' [ERROR] x'
LineRest == <<" ", "[", "E", "R", "R", "O", "R", "]", " ", "x">>

TimestampInputs ==
  {[fn |-> "extractTimestamp", line |-> line] :
     line \in {stamp \o LineRest :
                 stamp \in IsoStamps \cup UsStamps \cup SlashStamps}
               \cup Lines}

\* logAnalyzer.extractTimestamp(line)
ExtractTimestamp ==
  /\ input.fn = "extractTimestamp"
  /\ op = "none"
  /\ op' = "extractTimestamp"
  /\ output' = extractTimestamp(input.line)
  /\ UNCHANGED <<input, lastIndexOf>>
  /\ CallOnly

\* ------------------------------------------------------------------------
\* One pass of processLogEvents or processLogLines over a batch
\* ------------------------------------------------------------------------
\* no pass is under way
NoPass == [fn |-> "none"]

\* the call as it starts: the results object is created
NewPass(fn, records, source) ==
  [fn |-> fn, records |-> records, source |-> source, i |-> 1,
   results |-> EmptyBatch(Len(records)), checks |-> 0, returned |-> FALSE]

\* the events and the lines that the batches of a pass are made of
PassEvents ==
  {[timestamp |-> 1000, message |-> MsgError],
   [timestamp |-> 2500, message |-> MsgSlow],
   [timestamp |-> 61007, message |-> MsgFast],
   [timestamp |-> 62000, message |-> MsgFailure]}
PassLines == {MsgError, MsgSlow, MsgFast, MsgFailure, LineBadDate}

EventPasses ==
  {NewPass("processLogEvents", events, logGroups[1]) :
     events \in SeqsUpTo(PassEvents, MaxBatch)}
LinePasses ==
  {NewPass("processLogLines", lines, FileA.Key) :
     lines \in SeqsUpTo(PassLines, MaxBatch)}

\* forEach has a record left to call the callback with
InLoop ==
  /\ pass.fn # "none"
  /\ ~pass.returned
  /\ ~pass.results.threw
  /\ pass.i <= Len(pass.records)

\* a callback that checks the thresholds after each event
EventCallback_Checked ==
  /\ pass.fn = "processLogEvents"
  /\ InLoop
  /\ pass' = [pass EXCEPT
                !.results =
                   LET after == EventsLoop(<<pass.records[pass.i]>>, 1, pass.source, @)
                   IN  [after EXCEPT
                          !.violations =
                             @ \o checkThresholds(after.metrics, pass.source)],
                !.i = @ + 1,
                !.checks = @ + 1]
  /\ UNCHANGED <<alertVars, handlerVars, analyzeVars, op, input, output, lastIndexOf>>

\* the callback of events.forEach(...) of processLogEvents runs for the next
\* event
EventCallback ==
  /\ pass.fn = "processLogEvents"
  /\ InLoop
  /\ pass' = [pass EXCEPT
                !.results = EventsLoop(<<pass.records[pass.i]>>, 1, pass.source, @),
                !.i = @ + 1]
  /\ UNCHANGED <<alertVars, handlerVars, analyzeVars, op, input, output, lastIndexOf>>

\* the callback of lines.forEach(...) of processLogLines runs for the next
\* line
LineCallback ==
  /\ pass.fn = "processLogLines"
  /\ InLoop
  /\ pass' = [pass EXCEPT
                !.results = LinesLoop(<<pass.records[pass.i]>>, 1, pass.source, @),
                !.i = @ + 1]
  /\ UNCHANGED <<alertVars, handlerVars, analyzeVars, op, input, output, lastIndexOf>>

\* forEach has returned: the violations of checkThresholds are pushed and
\* the results are returned
PassReturn ==
  /\ pass.fn # "none"
  /\ ~pass.returned
  /\ ~pass.results.threw
  /\ pass.i > Len(pass.records)
  /\ pass' = [pass EXCEPT
                !.results.violations =
                   @ \o checkThresholds(pass.results.metrics, pass.source),
                !.checks = @ + 1,
                !.returned = TRUE]
  /\ UNCHANGED <<alertVars, handlerVars, analyzeVars, op, input, output, lastIndexOf>>

\* ------------------------------------------------------------------------
\* The specifications
\* ------------------------------------------------------------------------
\* the severities that the callers of SpecAlert pass
CallSeverities == {"WARNING", "CRITICAL"}

\* amounts by which the wall clock advances between two invocations or while
\* the handler waits at an await
HandlerClockSteps == {60 * 1000}

\* the handler is not running
HandlerOff ==
  /\ hpc = "idle"
  /\ run = 0
  /\ report = NoReport
  /\ statusCode = 0
  /\ attempts = <<>>
  /\ startTime = 0
  /\ deliveries = {}

\* analyzeLogs is not running
AnalyzeOff ==
  /\ apc = "off"
  /\ cwIndex = 1
  /\ cwResults = EmptyResults
  /\ s3pc = "list"
  /\ s3Files = <<>>
  /\ s3Index = 1
  /\ s3Results = EmptyResults
  /\ combinedResults = EmptyResults
  /\ responses = EmptyObject

\* a new AlertService at the start of the process
AlertServiceNew ==
  /\ now = ClockStart
  /\ lastAlertTimes = EmptyMap
  /\ call = [c \in Callers |-> IdleCall]
  /\ sinceRecord = [T \in AlertTypes |-> Undefined]

\* no function of the analyzer was called yet
CallsOff ==
  /\ op = "none"
  /\ input = <<>>
  /\ output = <<>>
  /\ lastIndexOf = FreshIndexes(errorPatterns)
  /\ pass = NoPass

vars == <<alertVars, handlerVars, analyzeVars, callVars>>

\* SpecAlert: one AlertService instance used by several callers
InitAlert ==
  /\ alertCooldown \in 1 .. MaxCooldown
  /\ snsTopicArn \in BOOLEAN
  /\ AlertServiceNew
  /\ HandlerOff
  /\ AnalyzeOff
  /\ CallsOff

NextAlert ==
  \/ \E T \in CallTypes :
       RecordAlert(T) /\ UNCHANGED <<handlerVars, analyzeVars, callVars>>
  \/ \E c \in Callers, T \in CallTypes, s \in CallSeverities :
       SendAlertCall(c, T, s) /\ UNCHANGED <<handlerVars, analyzeVars, callVars>>
  \/ \E c \in Callers, ok \in BOOLEAN :
       SnsSettled(c, ok) /\ UNCHANGED <<handlerVars, analyzeVars, callVars>>
  \/ \E c \in Callers, ok \in BOOLEAN :
       EmailSettled(c, ok) /\ UNCHANGED <<handlerVars, analyzeVars, callVars>>
  \/ \E c \in Callers :
       Consume(c) /\ UNCHANGED <<handlerVars, analyzeVars, callVars>>
  \/ \E d \in ClockSteps :
       Advance(d) /\ UNCHANGED <<handlerVars, analyzeVars, callVars>>

SpecAlert == InitAlert /\ [][NextAlert]_vars

\* SpecHandler: successive invocations of the handler in one process
InitHandler ==
  /\ alertCooldown \in 1 .. MaxCooldown
  /\ snsTopicArn \in BOOLEAN
  /\ AlertServiceNew
  /\ HandlerOff
  /\ AnalyzeOff
  /\ CallsOff

NextHandler ==
  \/ Invoke /\ UNCHANGED <<analyzeVars, callVars>>
  \/ \E r \in Reports : AnalysisDone(r) /\ UNCHANGED <<analyzeVars, callVars>>
  \/ CheckErrors /\ UNCHANGED <<analyzeVars, callVars>>
  \/ CheckViolations /\ UNCHANGED <<analyzeVars, callVars>>
  \/ CheckSummary /\ UNCHANGED <<analyzeVars, callVars>>
  \/ \E ok \in BOOLEAN : HandlerSns(ok) /\ UNCHANGED <<analyzeVars, callVars>>
  \/ \E ok \in BOOLEAN : HandlerEmail(ok) /\ UNCHANGED <<analyzeVars, callVars>>
  \/ Resume /\ UNCHANGED <<analyzeVars, callVars>>
  \/ Succeed /\ UNCHANGED <<analyzeVars, callVars>>
  \/ Catch /\ UNCHANGED <<analyzeVars, callVars>>
  \/ SendFailureAlert /\ UNCHANGED <<analyzeVars, callVars>>
  \/ ResumeFailure /\ UNCHANGED <<analyzeVars, callVars>>
  \/ \E d \in HandlerClockSteps :
       /\ hpc \in {"idle", "analyzing"} \cup Awaiting
       /\ Advance(d)
       /\ UNCHANGED <<handlerVars, analyzeVars, callVars>>

SpecHandler == InitHandler /\ [][NextHandler]_vars

\* SpecAnalyze: one call of analyzeLogs
InitAnalyze ==
  /\ alertCooldown = 1
  /\ snsTopicArn = TRUE
  /\ AlertServiceNew
  /\ HandlerOff
  /\ apc = "running"
  /\ cwIndex = 1
  /\ cwResults = EmptyResults
  /\ s3pc = "list"
  /\ s3Files = <<>>
  /\ s3Index = 1
  /\ s3Results = EmptyResults
  /\ combinedResults = EmptyResults
  /\ responses = EmptyObject
  /\ CallsOff

NextAnalyze ==
  \/ \E response \in CwResponses :
       CwGroup(response) /\ UNCHANGED <<alertVars, handlerVars, callVars>>
  \/ \E response \in ListResponses :
       S3List(response) /\ UNCHANGED <<alertVars, handlerVars, callVars>>
  \/ \E response \in FileResponses :
       S3File(response) /\ UNCHANGED <<alertVars, handlerVars, callVars>>
  \/ Combine /\ UNCHANGED <<alertVars, handlerVars, callVars>>

SpecAnalyze == InitAnalyze /\ [][NextAnalyze]_vars

\* ------------------------------------------------------------------------
\* The numeric settings of the configuration (config.js)
\* ------------------------------------------------------------------------
\* process.env.NAME: a string, or undefined when the variable is not set
Unset == [set |-> FALSE, text |-> <<>>]
Supplied(text) == [set |-> TRUE, text |-> text]

\* the string that parseInt and parseFloat make of their argument
EnvString(v) ==
  IF v.set THEN v.text ELSE <<"u", "n", "d", "e", "f", "i", "n", "e", "d">>

\* the results of parseInt and parseFloat
NaN == [isNaN |-> TRUE, value |-> 0]
NumberValue(n) == [isNaN |-> FALSE, value |-> n]

\* the position of the first character of string after its leading white
\* space and the position after an optional sign
SignAt(string) == RunEnd(string, 1, Whitespace)
AfterSign(string) ==
  IF SignAt(string) <= Len(string) /\ string[SignAt(string)] \in {"+", "-"}
    THEN SignAt(string) + 1
    ELSE SignAt(string)

\* a magnitude with the sign that string has
Signed(string, magnitude) ==
  IF AfterSign(string) > SignAt(string) /\ string[SignAt(string)] = "-"
    THEN 0 - magnitude
    ELSE magnitude

\* parseInt(string) without a radix: leading white space and a sign, then
\* the longest run of decimal digits, NaN when there is no digit; the
\* strings of the model have no 0x prefix
parseInt(string) ==
  LET first == AfterSign(string)
      end == RunEnd(string, first, Digits)
  IN  IF end = first THEN NaN
      ELSE NumberValue(Signed(string, ToNumber(SubSeq(string, first, end - 1))))

\* parseFloat(string) of a variable of the environment: leading white space
\* and a sign, then the longest decimal number, NaN when there is none; the
\* strings of the model have a digit before the decimal point
parseFloatEnv(string) ==
  LET first == AfterSign(string)
      end == NumberEnd(string, first)
  IN  CASE first > Len(string) \/ string[first] # "." ->
             IF end = first THEN NaN
             ELSE NumberValue(Signed(string,
                                     parseFloat(SubSeq(string, first, end - 1))))

\* parsed || fallback: NaN and 0 are falsy
OrDefault(parsed, fallback) ==
  IF parsed.isNaN \/ parsed.value = 0 THEN fallback ELSE parsed.value

\* the default of config.alerts.alertCooldown, in minutes
defaultAlertCooldown == 30

\* the names of the variables of the numeric settings
EnvNames ==
  {"MAX_ERRORS", "MAX_AVG_RESPONSE_TIME", "MAX_P95_RESPONSE_TIME",
   "MAX_MEMORY_PERCENT", "ALERT_COOLDOWN_MINUTES"}

\* the values that a variable of the environment may have
EnvValues ==
  {Unset, Supplied(<<"0">>), Supplied(<<"2", "5">>), Supplied(<<"a", "b", "c">>)}

\* the environments that the configuration is loaded in
ConfigInputs == {[fn |-> "config", env |-> env] : env \in [EnvNames -> EnvValues]}

\* the numeric settings of the object that config.js exports
config(env) ==
  [maxErrors |->
     OrDefault(parseInt(EnvString(env["MAX_ERRORS"])), maxErrors),
   maxAvgResponseTime |->
     OrDefault(parseInt(EnvString(env["MAX_AVG_RESPONSE_TIME"])),
               maxAvgResponseTime),
   maxP95ResponseTime |->
     OrDefault(parseInt(EnvString(env["MAX_P95_RESPONSE_TIME"])),
               maxP95ResponseTime),
   maxMemoryPercent |->
     OrDefault(parseFloatEnv(EnvString(env["MAX_MEMORY_PERCENT"])),
               maxMemoryPercent),
   alertCooldown |->
     OrDefault(parseInt(EnvString(env["ALERT_COOLDOWN_MINUTES"])),
               defaultAlertCooldown)]

\* require('./config') evaluates the module in the environment
RequireConfig ==
  /\ input.fn = "config"
  /\ op = "none"
  /\ op' = "config"
  /\ output' = [threw |-> FALSE, value |-> config(input.env)]
  /\ UNCHANGED <<input, lastIndexOf>>
  /\ CallOnly

\* SpecFunctions: one function of a LogAnalyzer is called with arguments
\* drawn at the start; the classification may be repeated
InitFunctions ==
  /\ alertCooldown = 1
  /\ snsTopicArn = TRUE
  /\ AlertServiceNew
  /\ HandlerOff
  /\ AnalyzeOff
  /\ op = "none"
  /\ \/ input \in ClassifyInputs
     \/ input \in EventsInputs
     \/ input \in LinesInputs
     \/ input \in MetricsInputs
     \/ input \in PercentileInputs
     \/ input \in TimestampInputs
     \/ input \in ConfigInputs
  /\ output = <<>>
  /\ lastIndexOf = FreshIndexes(errorPatterns)
  /\ pass = NoPass

NextFunctions ==
  \/ \E order \in PatternOrders : Classify(order)
  \/ ProcessLogEvents
  \/ ProcessLogLines
  \/ CheckThresholds
  \/ CalculatePercentile
  \/ ExtractTimestamp
  \/ RequireConfig

SpecFunctions == InitFunctions /\ [][NextFunctions]_vars

\* SpecBatch: one call of processLogEvents or of processLogLines, record by
\* record
InitBatch ==
  /\ alertCooldown = 1
  /\ snsTopicArn = TRUE
  /\ AlertServiceNew
  /\ HandlerOff
  /\ AnalyzeOff
  /\ op = "none"
  /\ input = <<>>
  /\ output = <<>>
  /\ lastIndexOf = FreshIndexes(errorPatterns)
  /\ \/ pass \in EventPasses
     \/ pass \in LinePasses

NextBatch ==
  \/ EventCallback
  \/ LineCallback
  \/ PassReturn

SpecBatch == InitBatch /\ [][NextBatch]_vars

\* ------------------------------------------------------------------------
\* Properties of the analysis
\* ------------------------------------------------------------------------
\* the entries of the combined report
ReportErrors == combinedResults.errors

\* the messages of a batch of events
EventMessages(events) == [i \in 1 .. Len(events) |-> events[i].message]

\* the number of messages that match an error pattern
NumErrors(records) ==
  Cardinality({i \in 1 .. Len(records) : MatchingPatterns(records[i]) # {}})

\* the classified errors of log group g in the combined report
GroupErrors(g) ==
  {j \in 1 .. Len(ReportErrors) :
     ReportErrors[j].logGroup = g /\ ReportErrors[j].source = "cloudwatch"}

\* the classified errors of the S3 file key in the combined report
FileErrors(key) ==
  {j \in 1 .. Len(ReportErrors) : ReportErrors[j].source = key}

\* the fetch of the source failed
FetchFailed(src) == src \in DOMAIN responses /\ responses[src].throws

\* the file was fetched and one of its lines cannot be processed
ProcessingFailed(key) ==
  /\ key \in DOMAIN responses
  /\ "lines" \in DOMAIN responses[key]
  /\ ~responses[key].throws
  /\ \E i \in 1 .. Len(responses[key].lines) :
       responses[key].lines[i] = LineBadDate

\* the fetch of the log group gave events
GroupAnalyzed(g) ==
  g \in DOMAIN responses /\ ~responses[g].throws /\ responses[g].events # <<>>

\* the files of the listing that were modified within the lookback window
SelectedFiles ==
  IF "s3" \in DOMAIN responses /\ ~responses["s3"].throws
    THEN {responses["s3"].Contents[k] : k \in
            {k \in 1 .. Len(responses["s3"].Contents) :
               responses["s3"].Contents[k].age < lookbackMinutes}}
    ELSE {}

\* C7: a failing source neither blocks nor fails the others: once analyzeLogs
\* has returned, every configured log group was fetched and every log group
\* that gave events is in the combined report with all its errors, whatever
\* happened to the other log groups and to S3; and every selected S3 file
\* was fetched and every file that could be processed has its errors in the
\* report, whatever happened to the other files.
C7_SourcesIsolated ==
  apc = "done" =>
    /\ \A i \in 1 .. Len(logGroups) :
         /\ logGroups[i] \in DOMAIN responses
         /\ GroupAnalyzed(logGroups[i]) =>
              /\ logGroups[i] \in DOMAIN combinedResults.metrics
              /\ Cardinality(GroupErrors(logGroups[i]))
                   = NumErrors(EventMessages(responses[logGroups[i]].events))
    /\ "s3" \in DOMAIN responses
    /\ \A f \in SelectedFiles :
         /\ f.Key \in DOMAIN responses
         /\ (~FetchFailed(f.Key) /\ ~ProcessingFailed(f.Key)) =>
              Cardinality(FileErrors(f.Key)) = NumErrors(responses[f.Key].lines)

\* the first log group and the first file failed, and a later log group and
\* a later file are in the report with their errors
C7_Witness ==
  /\ apc = "done"
  /\ FetchFailed(logGroups[1])
  /\ GroupAnalyzed(logGroups[2])
  /\ GroupErrors(logGroups[2]) # {}
  /\ FetchFailed(FileA.Key)
  /\ FileErrors(FileB.Key) # {}

\* the sources whose fetch, decompression or processing failed
FailedSources ==
  {src \in DOMAIN responses : FetchFailed(src) \/ ProcessingFailed(src)}

\* the entries that the analyzer itself wrote about a failure
SyntheticErrors ==
  {j \in 1 .. Len(ReportErrors) :
     ReportErrors[j].source \in {"log-analyzer", "s3-analyzer"}}

\* C8: the combined report holds one synthetic error entry, tagged with the
\* analyzer's own identity, for every source that failed.
C8_FailuresVisible ==
  apc = "done" =>
    /\ \A i \in 1 .. Len(logGroups) :
         FetchFailed(logGroups[i]) =>
           Cardinality({j \in SyntheticErrors :
                          ReportErrors[j].logGroup = logGroups[i]}) = 1
    /\ Cardinality(SyntheticErrors) = Cardinality(FailedSources)

\* ------------------------------------------------------------------------
\* Properties of the handler
\* ------------------------------------------------------------------------
\* the latest invocation has returned
Returned == hpc = "idle" /\ run > 0

\* whether processAnalysisResults has to send an alert of type T for report r
Qualifies(r, T) ==
  CASE T = "error-threshold" -> r.errors > maxErrors
    [] T = "threshold-violation" -> Len(r.violations) > 0
    [] T = "summary" -> r.errors > 0 \/ Len(r.violations) > 0
    [] OTHER -> FALSE

Attempted(T) == \E i \in 1 .. Len(attempts) : attempts[i].type = T

\* a sendAlert call of processAnalysisResults threw
ProcessingThrew ==
  \E i \in 1 .. Len(attempts) :
    attempts[i].type # "lambda-failure" /\ attempts[i].outcome = "threw"

FailureAttempts ==
  {i \in 1 .. Len(attempts) : attempts[i].type = "lambda-failure"}

\* C3: an invocation does not deliver an alert of a type that the invocation
\* before it in the same process delivered less than alertCooldown minutes
\* before this invocation started.
C3_CooldownAcrossRuns ==
  [][\A d \in deliveries' \ deliveries :
       ~ \E e \in deliveries :
           /\ e.type = d.type
           /\ e.run < d.run
           /\ startTime - e.at < CooldownMs]_vars

\* C9: when the SNS send of an alert fails its email send is still
\* attempted, and an invocation that has returned has attempted every alert
\* type its report qualifies for.
C9_FailureIsolated ==
  /\ \A c \in Callers : call[c].sns = "failed" => call[c].email # "none"
  /\ Returned =>
       \A T \in {"error-threshold", "threshold-violation", "summary"} :
         Qualifies(report, T) => Attempted(T)

\* C10: an invocation whose alert processing completes without throwing
\* returns statusCode 200 and sends no failure alert; one whose processing
\* throws attempts exactly one alert of type lambda-failure with severity
\* CRITICAL and returns statusCode 500, whether or not that alert could be
\* delivered.
C10_StatusCode ==
  Returned =>
    IF ProcessingThrew
      THEN /\ statusCode = 500
           /\ Cardinality(FailureAttempts) = 1
           /\ \A i \in FailureAttempts :
                /\ attempts[i].severity = "CRITICAL"
                /\ attempts[i].started
                /\ attempts[i].outcome \in {"returned", "threw"}
                /\ i = Len(attempts)
      ELSE /\ statusCode = 200
           /\ FailureAttempts = {}

\* an invocation returned 500 although its failure alert could not be sent
C10_Witness ==
  /\ Returned
  /\ ProcessingThrew
  /\ statusCode = 500
  /\ \E i \in FailureAttempts : attempts[i].outcome = "threw"

\* ------------------------------------------------------------------------
\* Properties of the AlertService
\* ------------------------------------------------------------------------
\* a sendAlert call of caller c is between its cooldown check and its end
InFlight(c) == call[c].pc \in {"sns", "email"}

\* C1: isInCooldown(T) is false when recordAlert(T) was never called, true
\* while less than alertCooldown minutes have elapsed since the latest
\* recordAlert(T) (in particular immediately after it), and false again once
\* alertCooldown minutes or more have elapsed.
C1_CooldownWindow ==
  \A T \in AlertTypes :
    IsInCooldown(T) = (sinceRecord[T] # Undefined /\ sinceRecord[T] < CooldownMs)

\* a type whose cooldown has elapsed and that is reported as not cooling
C1_Witness ==
  \E T \in AlertTypes :
    /\ T \in DOMAIN lastAlertTimes
    /\ sinceRecord[T] >= CooldownMs
    /\ ~IsInCooldown(T)
    /\ \E U \in AlertTypes : sinceRecord[U] = 0 /\ IsInCooldown(U)

\* C2: a sendAlert call made while its type is in cooldown attempts neither
\* the SNS send nor the email send, returns without error and leaves the
\* recorded times of all types unchanged.
C2_SkipInCooldown ==
  [][\A c \in Callers :
       (call[c].pc = "idle" /\ call'[c].pc # "idle" /\ IsInCooldown(call'[c].type))
         => /\ call'[c].pc = "returned"
            /\ call'[c].sns = "none"
            /\ call'[c].email = "none"
            /\ lastAlertTimes' = lastAlertTimes]_vars

\* a call that was skipped because its type is cooling
C2_Witness ==
  \E c \in Callers :
    /\ call[c].pc = "returned"
    /\ call[c].sns = "none"
    /\ call[c].email = "none"
    /\ IsInCooldown(call[c].type)

C5_TypesIndependent ==
  [][/\ \A T \in AlertTypes :
          (now' = now /\ (\/ MapGet(lastAlertTimes', T) # MapGet(lastAlertTimes, T)
                          \/ IsInCooldown(T)' # IsInCooldown(T)))
            => sinceRecord'[T] = 0 /\ MapGet(lastAlertTimes', T) = now
     /\ \A c \in Callers, T \in AlertTypes :
          (call'[c] # call[c] /\ T \notin {call[c].type, call'[c].type})
            => /\ MapGet(lastAlertTimes', T) = MapGet(lastAlertTimes, T)
               /\ IsInCooldown(T)' = IsInCooldown(T)]_vars

\* one type was recorded later than another one, which keeps its own time
C5_Witness ==
  \E T, U \in DOMAIN lastAlertTimes :
    /\ T # U
    /\ lastAlertTimes[T] < lastAlertTimes[U]
    /\ sinceRecord[T] > sinceRecord[U]
    /\ \E c \in Callers : call[c].pc = "returned" /\ call[c].type = U
                          /\ call[c].email = "ok"

\* C6: two overlapping sendAlert calls of the same type are never both past
\* the cooldown check.
C6_NoOverlappingDelivery ==
  \A c1, c2 \in Callers :
    (c1 # c2 /\ InFlight(c1) /\ InFlight(c2)) => call[c1].type # call[c2].type

\* the map after Map.prototype.set(T, clock)
WithEntry(times, T, clock) ==
  [x \in (DOMAIN times) \cup {T} |-> IF x = T THEN clock ELSE times[x]]

\* the step is the end of a sendAlert call of type T whose SNS send and
\* email send have both completed without an error
SendCompleted(T) ==
  \E c \in Callers :
    /\ call[c].pc = "email"
    /\ call[c].type = T
    /\ call[c].sns \in {"ok", "skipped"}
    /\ call'[c].email = "ok"
    /\ call'[c].pc = "returned"

\* C26: no step removes an entry of lastAlertTimes; the map changes only
\* when recordAlert(T) runs, which sets the entry of T to the current time
\* and leaves the other entries alone; and recordAlert(T) runs either as a
\* direct call or at the end of a sendAlert call of type T whose SNS send
\* and email send have both completed without an error.
C26_AppendOnly ==
  [][/\ DOMAIN lastAlertTimes \subseteq DOMAIN lastAlertTimes'
     /\ lastAlertTimes' # lastAlertTimes =>
          \E T \in AlertTypes :
            /\ lastAlertTimes' = WithEntry(lastAlertTimes, T, now)
            /\ call' = call \/ SendCompleted(T)]_vars

\* the map holds two types; the entry of one of them was set at the end of
\* a sendAlert call, later than the entry of the other one
C26_Witness ==
  \E c \in Callers, U \in DOMAIN lastAlertTimes :
    /\ call[c].pc = "returned"
    /\ call[c].email = "ok"
    /\ call[c].type \in DOMAIN lastAlertTimes
    /\ lastAlertTimes[call[c].type] = now
    /\ U # call[c].type
    /\ lastAlertTimes[U] < now
    /\ sinceRecord[call[c].type] = 0

\* ------------------------------------------------------------------------
\* Properties of the functions of the analyzer
\* ------------------------------------------------------------------------
\* some pattern of config.errorPatterns matches somewhere in the message,
\* whatever the case of its letters
AnyPatternMatches(message) ==
  \E k \in 1 .. NumErrorPatterns, j \in 1 .. Len(message) :
    MatchEnd(errorPatterns[k].source, 1, message, j, TRUE) # 0

\* C11: a message is classified as an error iff at least one of the error
\* patterns matches somewhere in it, case-insensitively; the result is the
\* same for every order of the patterns and for every repetition of the
\* classification.
C11_AnyMatch ==
  op = "classify" => (output.value <=> AnyPatternMatches(input.message))

\* the message ERRor was classified as an error a second time in a row,
\* with the patterns in reverse order
C11_Witness ==
  /\ op = "classify"
  /\ output.again
  /\ output.order[1] = NumErrorPatterns
  /\ input.message = <<"E", "R", "R", "o", "r">>
  /\ output.value

\* a batch was processed and its result returned
BatchReturned ==
  op \in {"processLogEvents", "processLogLines"} /\ ~output.threw

\* the messages of the records of the batch that was processed
BatchMessages ==
  IF op = "processLogEvents" THEN EventMessages(input.records) ELSE input.records

\* C12: for every batch that processLogEvents or processLogLines returns a
\* result for, the errors are the records that match an error pattern, one
\* entry each and in input order, their number is metrics.errorCount, and
\* the total of the metrics is the number of records of the batch.
C12_BatchCounts ==
  BatchReturned =>
    LET matching == SelectSeq(BatchMessages, AnyPatternMatches)
        errors == output.value.errors
    IN  /\ Len(errors) = Len(matching)
        /\ \A i \in 1 .. Len(errors) : errors[i].message = Truncate(matching[i])
        /\ output.value.metrics.errorCount = Len(errors)
        /\ output.value.metrics.total = Len(BatchMessages)

\* processLogLines returned two different errors in the order of the lines
C12_Witness ==
  /\ op = "processLogLines"
  /\ ~output.threw
  /\ input.records = <<MsgError, LineError>>
  /\ Len(output.value.errors) = 2
  /\ output.value.errors[1].message = MsgError

\* C13: an empty batch of events or lines is processed without an error
\* and gives no errors, no violations, the counters 0 and no samples.
C13_EmptyBatch ==
  (op \in {"processLogEvents", "processLogLines"} /\ input.records = <<>>) =>
    /\ ~output.threw
    /\ output.value.errors = <<>>
    /\ output.value.violations = <<>>
    /\ output.value.metrics.total = 0
    /\ output.value.metrics.errorCount = 0
    /\ output.value.metrics.responseTimes = <<>>
    /\ output.value.metrics.memoryUsage = <<>>

\* processLogEvents was called with no events
C13_Witness ==
  /\ op = "processLogEvents"
  /\ input.records = <<>>
  /\ ~output.threw
  /\ output.value.metrics.total = 0

\* the violations of one metric that checkThresholds returned
ViolationsOf(metric) ==
  SelectSeq(output.value, LAMBDA v : v.metric = metric)

\* C14: checkThresholds returns an Error Count violation iff at least one
\* record was processed and errorCount > maxErrors; its value is errorCount
\* and its threshold maxErrors.
C14_ErrorCount ==
  op = "checkThresholds" =>
    LET found == ViolationsOf("Error Count")
        fires == input.metrics.total > 0 /\ input.metrics.errorCount > maxErrors
    IN  /\ Len(found) = IF fires THEN 1 ELSE 0
        /\ \A i \in 1 .. Len(found) :
             /\ found[i].value = input.metrics.errorCount
             /\ found[i].threshold = maxErrors

\* 11 errors in 20 records gave an Error Count violation
C14_Witness ==
  /\ op = "checkThresholds"
  /\ input.metrics.total > 0
  /\ input.metrics.errorCount = maxErrors + 1
  /\ Len(ViolationsOf("Error Count")) = 1

\* the samples of a sequence
Range(samples) == {samples[i] : i \in 1 .. Len(samples)}

\* the nearest-rank percentile p of a non-empty sequence: the smallest
\* sample that at least p percent of the samples do not exceed
NearestRank(samples, p) ==
  LET covers(v) ==
        100 * Cardinality({i \in 1 .. Len(samples) : samples[i] <= v})
          >= p * Len(samples)
  IN  CHOOSE v \in Range(samples) :
        covers(v) /\ \A w \in Range(samples) : covers(w) => v <= w

\* C15: with response time samples, checkThresholds returns an Average
\* Response Time violation iff their mean > maxAvgResponseTime and,
\* independently, a P95 Response Time violation iff their nearest-rank 95th
\* percentile > maxP95ResponseTime; without samples it returns neither.
C15_ResponseTimes ==
  op = "checkThresholds" =>
    LET times == input.metrics.responseTimes
        n == Len(times)
    IN  /\ Len(ViolationsOf("Average Response Time")) =
             IF n > 0 /\ SumSeq(times) > maxAvgResponseTime * n THEN 1 ELSE 0
        /\ Len(ViolationsOf("P95 Response Time")) =
             IF n > 0 /\ NearestRank(times, 95) > maxP95ResponseTime
               THEN 1 ELSE 0

\* the percentile violation was returned without the average violation
C15_Witness ==
  /\ op = "checkThresholds"
  /\ Len(input.metrics.responseTimes) = 3
  /\ Len(ViolationsOf("P95 Response Time")) = 1
  /\ Len(ViolationsOf("Average Response Time")) = 0

\* C16: checkThresholds returns a Memory Usage violation iff there are
\* memory samples and their mean > maxMemoryPercent.
C16_MemoryUsage ==
  op = "checkThresholds" =>
    LET memory == input.metrics.memoryUsage
        k == Len(memory)
    IN  Len(ViolationsOf("Memory Usage")) =
          IF k > 0 /\ SumSeq(memory) > maxMemoryPercent * k THEN 1 ELSE 0

\* two memory samples with a mean above the threshold gave a violation
C16_Witness ==
  /\ op = "checkThresholds"
  /\ Len(input.metrics.memoryUsage) = 2
  /\ Len(ViolationsOf("Memory Usage")) = 1

\* the largest sample of a non-empty sequence
MaxSample(samples) ==
  CHOOSE v \in Range(samples) : \A w \in Range(samples) : w <= v

\* an index clamped to the positions 0 .. count - 1
Clamp(index, count) ==
  IF index < 0 THEN 0 ELSE IF index > count - 1 THEN count - 1 ELSE index

\* C17: calculatePercentile returns 0 for no samples and otherwise the
\* sample at position ceil(p / 100 * count) - 1, clamped to 0 .. count - 1,
\* of the samples in ascending order, and leaves its argument as it was.
C17_NearestRankClamped ==
  op = "calculatePercentile" =>
    LET sorted == SortAsc(input.values)
        count == Len(sorted)
        index == Clamp(CeilDiv(input.percentile * count, 100) - 1, count)
    IN  /\ output.value = IF count = 0 THEN 0 ELSE sorted[index + 1]
        /\ output.values = input.values

ValidDateIn(line, k) ==
  TimestampMatch(line, k) # <<>> /\ NewDate(TimestampMatch(line, k), k).valid

\* C19: extractTimestamp never throws; it returns an instant when the line
\* has a valid date in one of the three formats, and null when no format
\* matches or what matched is not a valid date.
C19_InstantOrAbsent ==
  op = "extractTimestamp" =>
    /\ ~output.threw
    /\ output.value # <<>> <=>
         \E k \in DOMAIN timestampPatterns : ValidDateIn(input.line, k)

\* the records of the batch that match an error pattern
MatchingRecords == SelectSeq(BatchMessages, AnyPatternMatches)

\* C20: every record that matches an error pattern has its entry in the
\* result of its batch, whatever its timestamp is; an entry of a line whose
\* timestamp is missing or cannot be parsed has the current time.
C20_NoErrorDropped ==
  op \in {"processLogEvents", "processLogLines"} =>
    /\ ~output.threw
    /\ Len(output.value.errors) = Len(MatchingRecords)
    /\ op = "processLogLines" =>
         \A i \in 1 .. Len(output.value.errors) :
           (~ \E k \in DOMAIN timestampPatterns :
                ValidDateIn(MatchingRecords[i], k))
             => output.value.errors[i].timestamp = toISOString(DateOfMs(now)).value

\* ------------------------------------------------------------------------
\* Properties of the results of the analysis
\* ------------------------------------------------------------------------
\* the first n characters of a text
FirstChars(text, n) ==
  [i \in 1 .. (IF Len(text) < n THEN Len(text) ELSE n) |-> text[i]]

\* the errors sequences that the analysis operations hold or have returned
ErrorSequences ==
  {cwResults.errors, s3Results.errors, combinedResults.errors}
    \cup (IF BatchReturned THEN {output.value.errors} ELSE {})

\* C21: every entry of the errors of processLogEvents, processLogLines,
\* analyzeCloudWatchLogs, analyzeS3Logs and analyzeLogs has a message of at
\* most 500 characters, and the entry of a classified record has the first
\* 500 characters of the message of the record.
C21_MessagesBounded ==
  /\ \A errors \in ErrorSequences :
       \A j \in 1 .. Len(errors) : Len(errors[j].message) <= MaxMessage
  /\ BatchReturned =>
       \A i \in 1 .. Len(output.value.errors) :
         output.value.errors[i].message = FirstChars(MatchingRecords[i], MaxMessage)

\* the position of a log group in config.logGroups, and of a file among the
\* files that analyzeS3Logs goes through; 0 for the analyzer's own entries
SourceIndex(src) ==
  IF \E i \in 1 .. Len(logGroups) : logGroups[i] = src
    THEN CHOOSE i \in 1 .. Len(logGroups) : logGroups[i] = src
  ELSE IF \E i \in 1 .. Len(s3Files) : s3Files[i].Key = src
    THEN CHOOSE i \in 1 .. Len(s3Files) : s3Files[i].Key = src
  ELSE 0

\* the source that an entry of the errors belongs to
EntrySource(entry) ==
  IF entry.source \in {"cloudwatch", "log-analyzer"} THEN entry.logGroup
  ELSE entry.source

\* the entries of a sequence follow the order of their sources
InSourceOrder(entries, Source(_)) ==
  \A j, k \in 1 .. Len(entries) :
    j < k => SourceIndex(Source(entries[j])) <= SourceIndex(Source(entries[k]))

\* the messages of the entries of one source, in the order of the report
MessagesOf(src) ==
  LET own == SelectSeq(ReportErrors,
                       LAMBDA e : EntrySource(e) = src
                                  /\ e.source \notin {"log-analyzer", "s3-analyzer"})
  IN  [j \in 1 .. Len(own) |-> own[j].message]

\* the messages of the records of a source that match an error pattern, as
\* they are kept, in the order of the records
KeptMessages(records) ==
  LET matching == SelectSeq(records, AnyPatternMatches)
  IN  [j \in 1 .. Len(matching) |-> FirstChars(matching[j], MaxMessage)]

\* no source gave a record or failed
NothingContributed ==
  /\ \A i \in 1 .. Len(logGroups) :
       ~FetchFailed(logGroups[i]) /\ ~GroupAnalyzed(logGroups[i])
  /\ ~FetchFailed("s3")
  /\ s3Files = <<>>

\* C22: the combined report of analyzeLogs has the errors of CloudWatch
\* followed by those of S3 and the violations of CloudWatch followed by those
\* of S3, the entries of each analysis in the order of its sources and, for
\* one source, in the order of its records, none dropped or repeated; the
\* totals of the summary are the lengths of the two sequences; and when no
\* source contributes, the sequences are empty and the counts are 0.
C22_ConcatenatedInOrder ==
  apc = "done" =>
    /\ combinedResults.errors = cwResults.errors \o s3Results.errors
    /\ combinedResults.violations = cwResults.violations \o s3Results.violations
    /\ InSourceOrder(cwResults.errors, EntrySource)
    /\ InSourceOrder(s3Results.errors, EntrySource)
    /\ InSourceOrder(cwResults.violations, LAMBDA v : v.source)
    /\ InSourceOrder(s3Results.violations, LAMBDA v : v.source)
    /\ \A i \in 1 .. Len(logGroups) :
         GroupAnalyzed(logGroups[i]) =>
           MessagesOf(logGroups[i])
             = KeptMessages(EventMessages(responses[logGroups[i]].events))
    /\ \A i \in 1 .. Len(s3Files) :
         (~FetchFailed(s3Files[i].Key) /\ ~ProcessingFailed(s3Files[i].Key)) =>
           MessagesOf(s3Files[i].Key) = KeptMessages(responses[s3Files[i].Key].lines)
    /\ combinedResults.summary.totalErrors = Len(combinedResults.errors)
    /\ combinedResults.summary.totalViolations = Len(combinedResults.violations)
    /\ NothingContributed =>
         /\ combinedResults.errors = <<>>
         /\ combinedResults.violations = <<>>
         /\ combinedResults.summary
              = [totalErrors |-> 0, totalViolations |-> 0,
                 cloudWatchSources |-> 0, s3Sources |-> 0]

\* a report with the errors of two log groups and a file and with the
\* violations of a log group and a file
C22_Witness ==
  /\ apc = "done"
  /\ MessagesOf(logGroups[1]) # <<>>
  /\ MessagesOf(logGroups[3]) # <<>>
  /\ s3Results.errors # <<>>
  /\ cwResults.violations # <<>>
  /\ s3Results.violations # <<>>

\* the log groups whose events were analyzed
AnalyzedGroups ==
  {logGroups[i] : i \in {i \in 1 .. Len(logGroups) : GroupAnalyzed(logGroups[i])}}

\* the S3 files whose lines were analyzed
AnalyzedFiles ==
  {s3Files[i].Key : i \in {i \in 1 .. Len(s3Files) :
                             /\ s3Files[i].Key \in DOMAIN responses
                             /\ ~FetchFailed(s3Files[i].Key)
                             /\ ~ProcessingFailed(s3Files[i].Key)}}

\* the counts of the summary for the log groups, and their metrics
CloudWatchSourcesCounted ==
  /\ combinedResults.summary.cloudWatchSources = Cardinality(AnalyzedGroups)
  /\ \A g \in AnalyzedGroups :
       /\ g \in DOMAIN combinedResults.metrics
       /\ combinedResults.metrics[g]
            = processLogEvents(responses[g].events, g).metrics

\* C23: summary.cloudWatchSources is the number of log groups whose events
\* were analyzed and summary.s3Sources the number of distinct S3 files whose
\* lines were analyzed, and the metrics of each of these sources are in the
\* metrics of the report under that source.
C23_SourceCounts ==
  apc = "done" =>
    /\ CloudWatchSourcesCounted
    /\ combinedResults.summary.s3Sources = Cardinality(AnalyzedFiles)
    /\ \A key \in AnalyzedFiles : key \in DOMAIN combinedResults.metrics

\* ------------------------------------------------------------------------
\* Properties of a pass over a batch
\* ------------------------------------------------------------------------
\* the messages of the records of the pass
PassMessages ==
  IF pass.fn = "processLogEvents" THEN EventMessages(pass.records)
  ELSE pass.records

\* what a pattern of extractMetrics captures in the messages that it
\* matches, in the order of the messages
Captured(messages, Match(_)) ==
  LET hits == SelectSeq(messages, LAMBDA m : Match(m) # Undefined)
  IN  [j \in 1 .. Len(hits) |-> Match(hits[j])]

\* the metrics have the samples of every record of the batch
MetricsComplete ==
  /\ pass.results.metrics.errorCount
       = Len(SelectSeq(PassMessages, AnyPatternMatches))
  /\ pass.results.metrics.responseTimes = Captured(PassMessages, responseTimeMatch)
  /\ pass.results.metrics.memoryUsage = Captured(PassMessages, memoryMatch)

\* C24: processLogEvents and processLogLines call checkThresholds once per
\* batch, after the last record was classified and its metrics extracted: no
\* violation comes from metrics that are not complete, and every violation
\* of the result has the source of the batch.
C24_CheckedOnceAtEnd ==
  pass.fn # "none" =>
    /\ pass.checks = IF pass.returned THEN 1 ELSE 0
    /\ ~pass.returned => pass.results.violations = <<>>
    /\ pass.returned =>
         /\ pass.i = Len(pass.records) + 1
         /\ MetricsComplete
         /\ pass.results.violations
              = checkThresholds(pass.results.metrics, pass.source)
         /\ \A j \in 1 .. Len(pass.results.violations) :
              pass.results.violations[j].source = pass.source

\* a batch whose first record alone is above the threshold of the average
\* response time was returned without a violation
C24_Witness ==
  /\ pass.fn = "processLogEvents"
  /\ pass.returned
  /\ PassMessages = <<MsgSlow, MsgFast>>
  /\ pass.results.metrics.responseTimes = <<6500, 100>>
  /\ pass.results.violations = <<>>

\* a sequence of samples after a step: the one before it, or that one with
\* one more sample at its end
GrownByAtMostOne(before, after) ==
  /\ Len(after) \in {Len(before), Len(before) + 1}
  /\ SubSeq(after, 1, Len(before)) = before

\* the count of a status code in a tally
Count(statusCodes, status) ==
  IF status \in DOMAIN statusCodes THEN statusCodes[status] ELSE 0

\* a tally after a step: the one before it, or that one with one count
\* incremented by one
TalliedAtMostOne(before, after) ==
  LET changed == {k \in (DOMAIN before) \cup (DOMAIN after) :
                    Count(after, k) # Count(before, k)}
  IN  /\ DOMAIN before \subseteq DOMAIN after
      /\ Cardinality(changed) <= 1
      /\ \A k \in changed : Count(after, k) = Count(before, k) + 1

\* the samples of a sequence after the callback ran for a message
SampleAdded(before, after, sample) ==
  after = IF sample # Undefined THEN Append(before, sample) ELSE before

\* C25: during a pass over a batch the callback of a record, whether the
\* record is an error or not, appends to the response times the sample of
\* the record if it has one, and likewise to the memory samples, increments
\* at most one count of the status codes by one, and leaves the samples and
\* the counts that exist as they are; the call of checkThresholds leaves the
\* metrics as they are.
C25_SamplesOnlyGrow ==
  [][(pass.fn # "none" /\ pass' # pass) =>
       LET before == pass.results.metrics
           after == pass'.results.metrics
           message == PassMessages[pass.i]
       IN  /\ GrownByAtMostOne(before.responseTimes, after.responseTimes)
           /\ GrownByAtMostOne(before.memoryUsage, after.memoryUsage)
           /\ TalliedAtMostOne(before.statusCodes, after.statusCodes)
           /\ (pass'.i # pass.i /\ ~pass'.results.threw) =>
                /\ SampleAdded(before.responseTimes, after.responseTimes,
                               responseTimeMatch(message))
                /\ SampleAdded(before.memoryUsage, after.memoryUsage,
                               memoryMatch(message))
                /\ statusMatch(message) # Undefined =>
                     Count(after.statusCodes, statusMatch(message))
                       = Count(before.statusCodes, statusMatch(message)) + 1
           /\ pass'.returned => after = before]_vars

\* a batch of an error with a response time, a memory sample and a status
\* code and of a record that is no error with a response time and another
\* status code was processed and returned
C25_Witness ==
  /\ pass.fn = "processLogLines"
  /\ pass.returned
  /\ pass.records = <<MsgFailure, MsgFast>>
  /\ pass.results.metrics.errorCount = 1
  /\ pass.results.metrics.responseTimes = <<9000, 100>>
  /\ pass.results.metrics.memoryUsage = <<90>>
  /\ Count(pass.results.metrics.statusCodes, 500) = 1
  /\ Count(pass.results.metrics.statusCodes, 200) = 1

\* ------------------------------------------------------------------------
\* Properties of the violations
\* ------------------------------------------------------------------------
\* the metrics in the order of the checks of checkThresholds
MetricOrder ==
  <<"Error Count", "Average Response Time", "P95 Response Time", "Memory Usage">>

\* the place of a metric in that order, 0 for another name
MetricRank(metric) ==
  IF \E r \in DOMAIN MetricOrder : MetricOrder[r] = metric
    THEN CHOOSE r \in DOMAIN MetricOrder : MetricOrder[r] = metric
    ELSE 0

\* C27: the violations that checkThresholds returns are in the order Error
\* Count, Average Response Time, P95 Response Time, Memory Usage, with each
\* metric at most once, and each has the comparison 'exceeds'.
C27_CheckOrder ==
  op = "checkThresholds" =>
    /\ \A j \in 1 .. Len(output.value) :
         /\ MetricRank(output.value[j].metric) # 0
         /\ output.value[j].comparison = "exceeds"
    /\ \A j, k \in 1 .. Len(output.value) :
         j < k => MetricRank(output.value[j].metric)
                    < MetricRank(output.value[k].metric)

\* checkThresholds returned the four violations
C27_Witness ==
  /\ op = "checkThresholds"
  /\ Len(output.value) = 4
  /\ output.value[1].metric = "Error Count"
  /\ output.value[4].metric = "Memory Usage"

\* the value of a violation is above its threshold; the value of the memory
\* usage is in tenths of a percent
ValueExceeds(v) ==
  IF v.metric = "Memory Usage" THEN v.value > 10 * v.threshold
  ELSE v.value > v.threshold

\* C29: the value of every violation that checkThresholds returns is
\* strictly above the threshold of the violation, for the rounded values of
\* the response times and the one-decimal value of the memory usage too.
C29_ValueAboveThreshold ==
  op = "checkThresholds" =>
    \A j \in 1 .. Len(output.value) : ValueExceeds(output.value[j])

\* ------------------------------------------------------------------------
\* Properties of processAnalysisResults
\* ------------------------------------------------------------------------
\* the alert types of processAnalysisResults in the order of its checks
ProcessingTypes == <<"error-threshold", "threshold-violation", "summary">>

\* the alert types that report r qualifies for, in that order
QualifiedTypes(r) ==
  LET Wanted(T) == Qualifies(r, T) IN SelectSeq(ProcessingTypes, Wanted)

\* the sendAlert calls of processAnalysisResults in the latest invocation
ProcessingAttempts ==
  LET Processing(a) == a.type # "lambda-failure" IN SelectSeq(attempts, Processing)

\* the types of a sequence of attempts
AttemptTypes(as) == [i \in 1 .. Len(as) |-> as[i].type]

\* the severity that the claim gives to an alert of type T for report r
StatedSeverities(r, T) ==
  CASE T = "error-threshold" ->
         IF r.errors > 2 * maxErrors THEN {"CRITICAL"} ELSE {"WARNING"}
    [] T = "summary" -> {"INFO"}
    [] OTHER -> {"CRITICAL", "WARNING"}

\* C28: an invocation that has returned has attempted exactly the alerts its
\* report qualifies for, in the order error-threshold, threshold-violation,
\* summary: error-threshold iff the errors are above maxErrors (CRITICAL
\* iff above 2 * maxErrors, else WARNING), threshold-violation iff there is
\* a violation, summary (INFO) iff there is an error or a violation, and
\* none for a report without errors and violations.
C28_AlertsAttempted ==
  Returned =>
    /\ AttemptTypes(ProcessingAttempts) = QualifiedTypes(report)
    /\ \A i \in 1 .. Len(ProcessingAttempts) :
         ProcessingAttempts[i].severity
           \in StatedSeverities(report, ProcessingAttempts[i].type)

\* ------------------------------------------------------------------------
\* Properties of the configuration
\* ------------------------------------------------------------------------
\* the setting that each variable gives and its documented default
Settings ==
  {[name |-> "MAX_ERRORS", field |-> "maxErrors", default |-> 10],
   [name |-> "MAX_AVG_RESPONSE_TIME", field |-> "maxAvgResponseTime",
    default |-> 5000],
   [name |-> "MAX_P95_RESPONSE_TIME", field |-> "maxP95ResponseTime",
    default |-> 10000],
   [name |-> "MAX_MEMORY_PERCENT", field |-> "maxMemoryPercent", default |-> 85],
   [name |-> "ALERT_COOLDOWN_MINUTES", field |-> "alertCooldown",
    default |-> 30]}

\* the variable holds a number: it is set to a string of decimal digits
HoldsNumber(v) ==
  v.set /\ v.text # <<>> /\ \A i \in 1 .. Len(v.text) : v.text[i] \in Digits

\* C30: each numeric setting has the value of its variable whenever the
\* variable holds a number, 0 included, and its documented default (10,
\* 5000, 10000, 85, 30) when the variable is unset or not numeric.
C30_EnvSettings ==
  op = "config" =>
    \A s \in Settings :
      output.value[s.field] =
        IF HoldsNumber(input.env[s.name])
          THEN ToNumber(input.env[s.name].text)
          ELSE s.default

====
